---- MODULE Spec2Model ----
(***************************************************************************)
(* CroDynO: cross-section fits (src/fitclasses.py).                        *)
(*                                                                         *)
(* One CrossSectionFit instance (a BarnettChebFit or a TabataFit1) is      *)
(* constructed from enumerated arguments and then driven by grid           *)
(* assignments (the energy_space setter) and evaluations (__call__).       *)
(*                                                                         *)
(* float64 values are tagged tuples: <<"num", n>> is the n-th value of a   *)
(* lattice of representable numbers (neighbouring integers are             *)
(* neighbouring floats), <<"nan">> and <<"inf">> are the IEEE specials,    *)
(* and any other tuple is the unevaluated result of an operation on        *)
(* finite operands (<<"div", a, b>>, <<"pow", a, b>>, ...).  The IEEE      *)
(* rules that decide a result without the operands' magnitude are          *)
(* applied: NaN propagation, pow(x, 0) = 1, pow(0, positive) = 0, x/0,     *)
(* 0*x.  The sign of an infinity is not tracked.                           *)
(***************************************************************************)
EXTENDS Integers, Sequences, FiniteSets, TLC

\* ------------------------------------------------------------------ bounds
\* largest domain bound handed to a constructor
MaxE == 2
\* largest projectile mass (amu) handed to BarnettChebFit; the masses start
\* at 2, the mass 1 leaving the domain as the semi-empirical fits leave it
MaxMass == 2
\* longest sequence of energies assigned as grid
MaxLen == 2
\* largest integer count assigned as grid
MaxCount == 2
\* the default energy_space of the constructors; 5000 in the source
\* (fitclasses.py line 71), scaled down so that the grid stays enumerable
DefaultEnergySpace == 3
\* evaluations followed between two grid assignments
MaxEvals == 2

\* ------------------------------------------------------------ float64 values
NaN == <<"nan">>
Inf == <<"inf">>
Num(n) == <<"num", n>>
IsNum(v) == v[1] = "num"
IsNaN(v) == v[1] = "nan"
IsInf(v) == v[1] = "inf"
IsZero(v) == v = Num(0)
\* the marker of an exception raised while a value was computed
Raised(kind) == <<"raise", kind>>
IsRaise(v) == v[1] = "raise"
\* the first exception among the operands, evaluated left to right
FirstRaise(a, b) == IF IsRaise(a) THEN a ELSE b
AnyRaise(a, b) == IsRaise(a) \/ IsRaise(b)
\* a computed value that is neither NaN nor an infinity
IsFinite(v) == ~IsNaN(v) /\ ~IsInf(v) /\ ~IsRaise(v)

\* a <= b on float64: false as soon as one side is NaN
FLe(a, b) == IsNum(a) /\ IsNum(b) /\ a[2] <= b[2]

RECURSIVE IPow(_, _)
IPow(b, e) == IF e = 0 THEN 1 ELSE b * IPow(b, e - 1)

FAdd(a, b) ==
    IF AnyRaise(a, b) THEN FirstRaise(a, b)
    ELSE IF IsNaN(a) \/ IsNaN(b) THEN NaN
    ELSE IF IsInf(a) \/ IsInf(b) THEN Inf
    ELSE IF IsNum(a) /\ IsNum(b) THEN Num(a[2] + b[2])
    ELSE IF IsZero(a) THEN b
    ELSE IF IsZero(b) THEN a
    ELSE <<"add", a, b>>

FSub(a, b) ==
    IF AnyRaise(a, b) THEN FirstRaise(a, b)
    ELSE IF IsNaN(a) \/ IsNaN(b) THEN NaN
    ELSE IF IsInf(a) /\ IsInf(b) THEN NaN
    ELSE IF IsInf(a) \/ IsInf(b) THEN Inf
    ELSE IF IsNum(a) /\ IsNum(b) THEN Num(a[2] - b[2])
    ELSE IF IsZero(b) THEN a
    ELSE <<"sub", a, b>>

FMul(a, b) ==
    IF AnyRaise(a, b) THEN FirstRaise(a, b)
    ELSE IF IsNaN(a) \/ IsNaN(b) THEN NaN
    ELSE IF (IsZero(a) /\ IsInf(b)) \/ (IsInf(a) /\ IsZero(b)) THEN NaN
    ELSE IF IsInf(a) \/ IsInf(b) THEN Inf
    ELSE IF IsZero(a) \/ IsZero(b) THEN Num(0)
    ELSE IF IsNum(a) /\ IsNum(b) THEN Num(a[2] * b[2])
    ELSE IF a = Num(1) THEN b
    ELSE IF b = Num(1) THEN a
    ELSE <<"mul", a, b>>

FDiv(a, b) ==
    IF AnyRaise(a, b) THEN FirstRaise(a, b)
    ELSE IF IsNaN(a) \/ IsNaN(b) THEN NaN
    ELSE IF IsInf(a) /\ IsInf(b) THEN NaN
    ELSE IF IsZero(a) /\ IsZero(b) THEN NaN
    ELSE IF IsZero(b) \/ IsInf(a) THEN Inf
    ELSE IF IsZero(a) \/ IsInf(b) THEN Num(0)
    ELSE IF b = Num(1) THEN a
    ELSE IF IsNum(a) /\ IsNum(b) /\ a[2] % b[2] = 0 /\ b[2] > 0
         THEN Num(a[2] \div b[2])
    ELSE <<"div", a, b>>

\* mutant: a power of zero is not defined (0 ^ b is NaN for b # 0)
FPow_zero_base_nan(a, b) ==
    IF AnyRaise(a, b) THEN FirstRaise(a, b)
    ELSE IF IsZero(b) THEN Num(1)
    ELSE IF a = Num(1) THEN Num(1)
    ELSE IF IsNaN(a) \/ IsNaN(b) THEN NaN
    ELSE IF IsZero(a) THEN NaN
    ELSE IF IsInf(a) THEN (IF IsNum(b) /\ b[2] < 0 THEN Num(0) ELSE Inf)
    ELSE IF IsNum(a) /\ IsNum(b) /\ b[2] > 0 THEN Num(IPow(a[2], b[2]))
    ELSE <<"pow", a, b>>

\* numpy.power(a, b); the exponents of this program are sums and differences
\* of coefficients, integers of the lattice in this model
FPow(a, b) ==
    IF AnyRaise(a, b) THEN FirstRaise(a, b)
    ELSE IF IsZero(b) THEN Num(1)
    ELSE IF a = Num(1) THEN Num(1)
    ELSE IF IsNaN(a) \/ IsNaN(b) THEN NaN
    ELSE IF IsZero(a) THEN (IF IsNum(b) /\ b[2] < 0 THEN Inf ELSE Num(0))
    ELSE IF IsInf(a) THEN (IF IsNum(b) /\ b[2] < 0 THEN Num(0) ELSE Inf)
    ELSE IF IsNum(a) /\ IsNum(b) /\ b[2] > 0 THEN Num(IPow(a[2], b[2]))
    ELSE <<"pow", a, b>>

\* numpy.log(a)
FLog(a) ==
    IF IsRaise(a) THEN a
    ELSE IF IsNaN(a) THEN NaN
    ELSE IF IsZero(a) \/ IsInf(a) THEN Inf
    ELSE IF a = Num(1) THEN Num(0)
    ELSE IF IsNum(a) /\ a[2] < 0 THEN NaN
    ELSE <<"log", a>>

\* numpy.exp(a); exp of an infinity is 0 or inf by its sign, which is not
\* tracked: the result is kept as an unevaluated finite-or-infinite term
FExp(a) ==
    IF IsRaise(a) THEN a
    ELSE IF IsNaN(a) THEN NaN
    ELSE IF IsZero(a) THEN Num(1)
    ELSE <<"exp", a>>

\* the literals of the source that are no lattice integers
Lit(name) == <<"lit", name>>

\* ------------------------------------------------------- grids and results
\* _energy_space: the float numpy.NaN (t = "nan"), a 0-d array (t =
\* "scalar") or a 1-d array (t = "array"); s holds the values
NaNGrid == [t |-> "nan", s |-> <<NaN>>]
ScalarGrid(v) == [t |-> "scalar", s |-> <<v>>]
ArrayGrid(vs) == [t |-> "array", s |-> vs]
\* _sigma: None, or the value fit_function returned
NoneSigma == [t |-> "none", s |-> <<>>]

\* the values handed to the energy_space setter and to __call__
NoneArg == [t |-> "None", n |-> 0, s |-> <<>>]
IntArg(n) == [t |-> "int", n |-> n, s |-> <<>>]
FloatArg(v) == [t |-> "float", n |-> 0, s |-> <<v>>]
SeqArg(vs) == [t |-> "seq", n |-> 0, s |-> vs]
\* a nested sequence: numpy.asarray gives it two dimensions
Nd2Arg == [t |-> "nd2", n |-> 0, s |-> <<>>]
\* a string that is no number: numpy.asarray raises ValueError on it
StrArg == [t |-> "str", n |-> 0, s |-> <<>>]

\* mutant: a position past the end of the tuple reads as zero
Coef_missing_is_zero(self, i) ==
    IF i + 1 <= Len(self.tabata_coefficients)
    THEN self.tabata_coefficients[i + 1]
    ELSE Num(0)

\* mutant: the positions a1..aN are taken as indices 1..N of the tuple
Coef_one_based(self, i) ==
    IF i + 2 <= Len(self.tabata_coefficients)
    THEN self.tabata_coefficients[i + 2]
    ELSE Raised("IndexError")

\* ------------------------------------------------------------ fit functions
\* self._tabata_coefficients[i] (0-based i): IndexError past the end
Coef(self, i) ==
    IF i + 1 <= Len(self.tabata_coefficients)
    THEN self.tabata_coefficients[i + 1]
    ELSE Raised("IndexError")

\* TabataFitBase._f1: s0 * a1 * (x / ryd) ^ a2
f1(self, x) ==
    FMul(FMul(Lit("1e-16"), Coef(self, 0)),
         FPow(FDiv(x, Lit("1.361e1")), Coef(self, 1)))

\* TabataFitBase._f2: f1(x) / (1 + (x * 1e-3 / a3) ^ (a2 + a4))
f2(self, x) ==
    FDiv(f1(self, x),
         FAdd(Num(1),
              FPow(FDiv(FMul(x, Lit("1e-3")), Coef(self, 2)),
                   FAdd(Coef(self, 1), Coef(self, 3)))))

\* TabataFitBase._f1_2, _f1_3, _f1_4: f1 on the coefficients (a5, a6),
\* (a7, a8) and (a5, a2)
f1_2(self, x) ==
    FMul(FMul(Lit("1e-16"), Coef(self, 4)),
         FPow(FDiv(x, Lit("1.361e1")), Coef(self, 5)))

f1_3(self, x) ==
    FMul(FMul(Lit("1e-16"), Coef(self, 6)),
         FPow(FDiv(x, Lit("1.361e1")), Coef(self, 7)))

f1_4(self, x) ==
    FMul(FMul(Lit("1e-16"), Coef(self, 4)),
         FPow(FDiv(x, Lit("1.361e1")), Coef(self, 1)))

\* TabataFitBase._f2_2, _f2_3: f2 on (a5, a6, a7, a8) and (a7, a8, a9, a10)
f2_2(self, x) ==
    FDiv(f1_2(self, x),
         FAdd(Num(1),
              FPow(FDiv(FMul(x, Lit("1e-3")), Coef(self, 6)),
                   FAdd(Coef(self, 5), Coef(self, 7)))))

f2_3(self, x) ==
    FDiv(f1_3(self, x),
         FAdd(Num(1),
              FPow(FDiv(FMul(x, Lit("1e-3")), Coef(self, 8)),
                   FAdd(Coef(self, 7), Coef(self, 9)))))

\* TabataFitBase._f3, _f3_2, _f3_3: f1 / (1 + (..)^(..) + (..)^(..))
f3(self, x) ==
    FDiv(f1(self, x),
         FAdd(FAdd(Num(1),
                   FPow(FDiv(FMul(x, Lit("1e-3")), Coef(self, 2)),
                        FAdd(Coef(self, 1), Coef(self, 3)))),
              FPow(FDiv(FMul(x, Lit("1e-3")), Coef(self, 4)),
                   FAdd(Coef(self, 1), Coef(self, 5)))))

f3_2(self, x) ==
    FDiv(f1_3(self, x),
         FAdd(FAdd(Num(1),
                   FPow(FDiv(FMul(x, Lit("1e-3")), Coef(self, 8)),
                        FAdd(Coef(self, 7), Coef(self, 9)))),
              FPow(FDiv(FMul(x, Lit("1e-3")), Coef(self, 10)),
                   FAdd(Coef(self, 7), Coef(self, 11)))))

f3_3(self, x) ==
    FDiv(f1_4(self, x),
         FAdd(FAdd(Num(1),
                   FPow(FDiv(FMul(x, Lit("1e-3")), Coef(self, 5)),
                        FAdd(Coef(self, 1), Coef(self, 6)))),
              FPow(FDiv(FMul(x, Lit("1e-3")), Coef(self, 7)),
                   FAdd(Coef(self, 1), Coef(self, 8)))))

\* TabataFitBase._f4
f4(self, x) ==
    FDiv(FMul(f1(self, x),
              FAdd(Num(1),
                   FPow(FDiv(FMul(x, Lit("1e-3")), Coef(self, 2)),
                        FSub(Coef(self, 3), Coef(self, 1))))),
         FAdd(FAdd(Num(1),
                   FPow(FDiv(FMul(x, Lit("1e-3")), Coef(self, 4)),
                        FAdd(Coef(self, 3), Coef(self, 5)))),
              FPow(FDiv(FMul(x, Lit("1e-3")), Coef(self, 6)),
                   FAdd(Coef(self, 3), Coef(self, 7)))))

\* TabataFit1._fit_function at one energy
TabataFit1_fit(self, x) ==
    FDiv(f2(self, FSub(x, self.activation_energy)), Lit("1e4"))

\* the _fit_function of the other semi-empirical variants at one energy
TabataFit2_fit(self, x) ==
    FDiv(FAdd(f2(self, FSub(x, self.activation_energy)),
              FMul(Coef(self, 4),
                   f2(self, FDiv(FSub(x, self.activation_energy), Coef(self, 5))))),
         Lit("1e4"))

TabataFit3_fit(self, x) ==
    FDiv(FAdd(f2(self, FSub(x, self.activation_energy)),
              f2_2(self, FSub(x, self.activation_energy))),
         Lit("1e4"))

TabataFit6_fit(self, x) ==
    FDiv(f3(self, FSub(x, self.activation_energy)), Lit("1e4"))

\* mutant: variant #8 adds f3 on the first coefficients (a1..a6)
TabataFit8_fit_first_set(self, x) ==
    FDiv(FAdd(f2(self, FSub(x, self.activation_energy)),
              f3(self, FSub(x, self.activation_energy))),
         Lit("1e4"))

TabataFit8_fit(self, x) ==
    FDiv(FAdd(f2(self, FSub(x, self.activation_energy)),
              f3_3(self, FSub(x, self.activation_energy))),
         Lit("1e4"))

TabataFit10_fit(self, x) ==
    FDiv(FAdd(f3(self, FSub(x, self.activation_energy)),
              FMul(Coef(self, 6),
                   f3(self, FDiv(FSub(x, self.activation_energy), Coef(self, 7))))),
         Lit("1e4"))

TabataFit11_fit(self, x) ==
    FDiv(FAdd(f3(self, FSub(x, self.activation_energy)),
              f2_3(self, FSub(x, self.activation_energy))),
         Lit("1e4"))

TabataFit13_fit(self, x) ==
    FDiv(FAdd(f3(self, FSub(x, self.activation_energy)),
              f3_2(self, FSub(x, self.activation_energy))),
         Lit("1e4"))

TabataFit14_fit(self, x) ==
    FDiv(f4(self, FSub(x, self.activation_energy)), Lit("1e4"))

\* self._cheb_poly(a): the Chebyshev series, left unevaluated; a NaN
\* argument gives NaN whatever the coefficients
cheb_poly(self, a) ==
    IF IsRaise(a) THEN a
    ELSE IF IsNaN(a) THEN NaN
    ELSE <<"cheb", a>>

\* BarnettChebFit._fit_function at one energy
BarnettChebFit_fit(self, x) ==
    FDiv(FExp(cheb_poly(self, FLog(x))), Lit("1e4"))

\* _fit_function of the instance's class at one energy
fit_at(self, x) ==
    CASE self.kind = "BarnettChebFit" -> BarnettChebFit_fit(self, x)
      [] self.kind = "TabataFit1" -> TabataFit1_fit(self, x)
      [] self.kind = "TabataFit2" -> TabataFit2_fit(self, x)
      [] self.kind = "TabataFit3" -> TabataFit3_fit(self, x)
      [] self.kind = "TabataFit6" -> TabataFit6_fit(self, x)
      [] self.kind = "TabataFit8" -> TabataFit8_fit(self, x)
      [] self.kind = "TabataFit10" -> TabataFit10_fit(self, x)
      [] self.kind = "TabataFit11" -> TabataFit11_fit(self, x)
      [] self.kind = "TabataFit13" -> TabataFit13_fit(self, x)
      [] self.kind = "TabataFit14" -> TabataFit14_fit(self, x)

\* self._fit_function(grid): the exception it raises (the coefficient reads
\* of the lambdas happen whatever the energies are, also on an empty array),
\* or the values, shaped like the grid
fit_function(self, grid) ==
    LET probe == fit_at(self, NaN)
    IN  IF IsRaise(probe)
        THEN [err |-> probe[2], val |-> NoneSigma]
        ELSE [err |-> "none",
              val |-> [t |-> IF grid.t = "array" THEN "array" ELSE "scalar",
                       s |-> [i \in 1..Len(grid.s) |-> fit_at(self, grid.s[i])]]]

\* --------------------------------------------------------------- the grid
\* numpy.logspace(log10(lo), log10(hi), n) computes 10 ** linspace(...): a
\* bound comes back as 10 ** log10(bound), which the platform's libm rounds
\* to the bound or to a neighbouring float; round[b] is that rounding
Pow10Log10(round, b) == Num(b[2] + round[b[2]])

\* the largest lattice value p with p^d <= lo^(d-k) * hi^k: the k-th of d
\* log-spaced steps from lo to hi, rounded down
GeoInterp(lo, hi, k, d) ==
    CHOOSE p \in lo..hi :
        /\ IPow(p, d) <= IPow(lo, d - k) * IPow(hi, k)
        /\ \A q \in lo..hi : IPow(q, d) <= IPow(lo, d - k) * IPow(hi, k) => q <= p

Clamp(v, a, b) == IF v < a THEN a ELSE IF v > b THEN b ELSE v

\* mutant: numpy.logspace(..., endpoint=False), the high bound not reached
LogSpace_no_endpoint(round, domain, n) ==
    [i \in 1..n |->
        IF domain[1][2] <= 0 THEN NaN
        ELSE IF i = 1 THEN Pow10Log10(round, domain[1])
        ELSE Num(Clamp(GeoInterp(domain[1][2], domain[2][2], i - 1, n),
                       Pow10Log10(round, domain[1])[2],
                       Pow10Log10(round, domain[2])[2]))]

\* numpy.logspace(*numpy.log10(domain), n, dtype=float64) for n >= 0
LogSpace(round, domain, n) ==
    LET lo == domain[1]
        hi == domain[2]
        first == Pow10Log10(round, lo)
        last == Pow10Log10(round, hi)
    IN  [i \in 1..n |->
            IF lo[2] <= 0
            THEN \* log10(0) = -inf: every step of linspace is NaN, and the
                 \* last point is then set to log10(hi)
                 IF i = n /\ n > 1
                 THEN (IF hi[2] <= 0 THEN Num(0) ELSE last)
                 ELSE NaN
            ELSE IF i = 1 THEN first
            ELSE IF i = n THEN last
            ELSE Num(Clamp(GeoInterp(lo[2], hi[2], i - 1, n - 1),
                           first[2], last[2]))]

\* mutant: the low bound is not tested
InDomain_no_low_bound(domain, v) == FLe(v, domain[2])

\* mutant: the high bound excluded
InDomain_exclusive_high(domain, v) ==
    FLe(domain[1], v) /\ FLe(v, domain[2]) /\ v # domain[2]

\* self.domain[0] <= v <= self.domain[1]
InDomain(domain, v) == FLe(domain[1], v) /\ FLe(v, domain[2])

\* mutant: an out-of-domain scalar becomes a 0-d NaN array, another marker
\* than the float NaN the 1-d case returns
allowed_scalar_other_marker(domain, v) ==
    IF FLe(domain[1], v) /\ FLe(v, domain[2]) THEN ScalarGrid(v) ELSE ScalarGrid(NaN)

\* CrossSectionFit._allowed_energies on a 0-d array
allowed_scalar(domain, v) ==
    IF InDomain(domain, v) THEN ScalarGrid(v) ELSE NaNGrid

\* mutant: a sequence filtered to nothing stays an empty array
allowed_array_keep_empty(domain, vs) ==
    ArrayGrid(SelectSeq(vs, LAMBDA v : FLe(domain[1], v) /\ FLe(v, domain[2])))

\* CrossSectionFit._allowed_energies on a 1-d array
allowed_array(domain, vs) ==
    LET valid_energies == SelectSeq(vs, LAMBDA v : InDomain(domain, v))
    IN  IF Len(valid_energies) > 0 THEN ArrayGrid(valid_energies) ELSE NaNGrid

\* CrossSectionFit._allowed_energies
allowed_energies(domain, arr) ==
    IF arr.t = "float" THEN allowed_scalar(domain, arr.s[1])
    ELSE allowed_array(domain, arr.s)

\* numpy.asarray(value, dtype=float64) of a value that converts: None becomes
\* the 0-d array nan, numbers keep their value
asarray(value) == IF value.t = "None" THEN FloatArg(NaN) ELSE value

\* mutant: the cache is never reset
energy_space_setter_keep_cache(round, self, value) ==
    IF value.t = "int"
    THEN IF value.n < 0
         THEN [self |-> self, err |-> "ValueError"]
         ELSE [self |-> [self EXCEPT
                            !.energy_space =
                                ArrayGrid(LogSpace(round, self.domain, value.n)),
                            !.energy_repr = value],
               err |-> "none"]
    ELSE IF value.t \in {"nd2", "str"}
    THEN [self |-> self, err |-> "TypeError"]
    ELSE [self |-> [self EXCEPT
                       !.energy_space =
                           allowed_energies(self.domain, asarray(value)),
                       !.energy_repr = asarray(value)],
          err |-> "none"]

\* mutant: the cache is reset only once the value has been accepted
energy_space_setter_reset_late(round, self, value) ==
    LET reset == [self EXCEPT !.sigma = NoneSigma]
    IN  IF value.t = "int"
        THEN IF value.n < 0
             THEN [self |-> self, err |-> "ValueError"]
             ELSE [self |-> [reset EXCEPT
                                !.energy_space =
                                    ArrayGrid(LogSpace(round, self.domain, value.n)),
                                !.energy_repr = value],
                   err |-> "none"]
        ELSE IF value.t \in {"nd2", "str"}
        THEN [self |-> self, err |-> "TypeError"]
        ELSE [self |-> [reset EXCEPT
                           !.energy_space =
                               allowed_energies(self.domain, asarray(value)),
                           !.energy_repr = asarray(value)],
              err |-> "none"]

\* mutant: a rejected value leaves the NaN marker as grid
energy_space_setter_reject_clears_grid(round, self, value) ==
    LET reset == [self EXCEPT !.sigma = NoneSigma]
    IN  IF value.t = "int"
        THEN IF value.n < 0
             THEN [self |-> reset, err |-> "ValueError"]
             ELSE [self |-> [reset EXCEPT
                                !.energy_space =
                                    ArrayGrid(LogSpace(round, self.domain, value.n)),
                                !.energy_repr = value],
                   err |-> "none"]
        ELSE IF value.t \in {"nd2", "str"}
        THEN [self |-> [reset EXCEPT !.energy_space = NaNGrid], err |-> "TypeError"]
        ELSE [self |-> [reset EXCEPT
                           !.energy_space =
                               allowed_energies(self.domain, asarray(value)),
                           !.energy_repr = asarray(value)],
              err |-> "none"]

\* the energy_space setter: the instance after it, and the exception raised
energy_space_setter(round, self, value) ==
    LET reset == [self EXCEPT !.sigma = NoneSigma]
    IN  IF value.t = "int"
        THEN IF value.n < 0
             THEN \* numpy.logspace: "Number of samples must be non-negative"
                  [self |-> reset, err |-> "ValueError"]
             ELSE [self |-> [reset EXCEPT
                                !.energy_space =
                                    ArrayGrid(LogSpace(round, self.domain, value.n)),
                                !.energy_repr = value],
                   err |-> "none"]
        ELSE IF value.t \in {"nd2", "str"}
        THEN [self |-> reset, err |-> "TypeError"]
        ELSE [self |-> [reset EXCEPT
                           !.energy_space =
                               allowed_energies(self.domain, asarray(value)),
                           !.energy_repr = asarray(value)],
              err |-> "none"]

\* mutant: _fit_function is invoked on every call, the cache is not consulted
call_always_compute(round, self, energies) ==
    LET set == IF energies.t # "None"
               THEN energy_space_setter(round, self, energies)
               ELSE [self |-> self, err |-> "none"]
        s1 == set.self
        fit == fit_function(s1, s1.energy_space)
    IN  IF set.err # "none"
        THEN [self |-> s1, err |-> set.err, ret |-> NoneSigma, computed |-> FALSE]
        ELSE IF fit.err # "none"
        THEN [self |-> s1, err |-> fit.err, ret |-> NoneSigma, computed |-> TRUE]
        ELSE [self |-> [s1 EXCEPT !.sigma = fit.val], err |-> "none",
              ret |-> fit.val, computed |-> TRUE]

\* mutant: energies are written to _energy_space directly, not through the
\* setter: unfiltered, and the value kept for __repr__ is not updated
call_bypass_setter(round, self, energies) ==
    LET set == energy_space_setter(round, self, energies)
        s1 == IF energies.t = "None" THEN self
              ELSE IF energies.t \in {"float", "seq"}
              THEN [self EXCEPT !.sigma = NoneSigma,
                                !.energy_space =
                                    IF energies.t = "float"
                                    THEN ScalarGrid(energies.s[1])
                                    ELSE ArrayGrid(energies.s)]
              ELSE set.self
        e1 == IF energies.t \in {"None", "float", "seq"} THEN "none" ELSE set.err
        fit == fit_function(s1, s1.energy_space)
    IN  IF e1 # "none"
        THEN [self |-> s1, err |-> e1, ret |-> NoneSigma, computed |-> FALSE]
        ELSE IF s1.sigma # NoneSigma
        THEN [self |-> s1, err |-> "none", ret |-> s1.sigma, computed |-> FALSE]
        ELSE IF fit.err # "none"
        THEN [self |-> s1, err |-> fit.err, ret |-> NoneSigma, computed |-> TRUE]
        ELSE [self |-> [s1 EXCEPT !.sigma = fit.val], err |-> "none",
              ret |-> fit.val, computed |-> TRUE]

\* mutant: an evaluation overwrites the high bound of the domain
call_overwrites_domain(round, self, energies) ==
    LET set == IF energies.t # "None"
               THEN energy_space_setter(round, self, energies)
               ELSE [self |-> self, err |-> "none"]
        s1 == set.self
        fit == fit_function(s1, s1.energy_space)
        s2 == [s1 EXCEPT !.sigma = fit.val, !.domain = <<@[1], NaN>>]
    IN  IF set.err # "none"
        THEN [self |-> s1, err |-> set.err, ret |-> NoneSigma, computed |-> FALSE]
        ELSE IF s1.sigma # NoneSigma
        THEN [self |-> s1, err |-> "none", ret |-> s1.sigma, computed |-> FALSE]
        ELSE IF fit.err # "none"
        THEN [self |-> s1, err |-> fit.err, ret |-> NoneSigma, computed |-> TRUE]
        ELSE [self |-> s2, err |-> "none", ret |-> fit.val, computed |-> TRUE]

\* CrossSectionFit.__call__: the instance after it, the exception raised, the
\* value returned and whether _fit_function was invoked
call(round, self, energies) ==
    LET set == IF energies.t # "None"
               THEN energy_space_setter(round, self, energies)
               ELSE [self |-> self, err |-> "none"]
        s1 == set.self
        fit == fit_function(s1, s1.energy_space)
    IN  IF set.err # "none"
        THEN [self |-> s1, err |-> set.err, ret |-> NoneSigma, computed |-> FALSE]
        ELSE IF s1.sigma # NoneSigma
        THEN [self |-> s1, err |-> "none", ret |-> s1.sigma, computed |-> FALSE]
        ELSE IF fit.err # "none"
        THEN [self |-> s1, err |-> fit.err, ret |-> NoneSigma, computed |-> TRUE]
        ELSE [self |-> [s1 EXCEPT !.sigma = fit.val], err |-> "none",
              ret |-> fit.val, computed |-> TRUE]

\* ------------------------------------------------------------ construction
\* description arguments: a string, and a value that is no string
StrDesc(text) == [str |-> TRUE, text |-> text]
NonStrDesc == [str |-> FALSE, text |-> ""]

\* the attributes of an instance whose __init__ has set none yet
Blank(kind) ==
    [kind |-> kind, domain |-> <<>>, description |-> "",
     energy_space |-> NaNGrid, energy_repr |-> NoneArg, sigma |-> NoneSigma,
     projectile_mass |-> Num(0), barnett_coefficients |-> <<>>,
     chebyshev_coefficients |-> <<>>, chebyshev_domain |-> <<>>,
     activation_energy |-> Num(0), tabata_coefficients |-> <<>>]

\* mutant: the ordering check rejects lo = hi
CrossSectionFit_init_strict(round, self, domain, description, energy_space) ==
    IF Len(domain) # 2 \/ domain[1][2] >= domain[2][2]
    THEN [self |-> self, err |-> "TypeError", why |-> "domain"]
    ELSE IF ~description.str
    THEN [self |-> self, err |-> "TypeError", why |-> "description"]
    ELSE LET set == energy_space_setter(round,
                        [self EXCEPT !.domain = domain,
                                     !.description = description.text],
                        energy_space)
         IN  [self |-> set.self, err |-> set.err,
              why |-> IF set.err = "none" THEN "" ELSE "energy_space"]

\* mutant: the description is examined before the domain
CrossSectionFit_init_description_first(round, self, domain, description, energy_space) ==
    IF ~description.str
    THEN [self |-> self, err |-> "TypeError", why |-> "description"]
    ELSE IF Len(domain) # 2 \/ domain[1][2] > domain[2][2]
    THEN [self |-> self, err |-> "TypeError", why |-> "domain"]
    ELSE LET set == energy_space_setter(round,
                        [self EXCEPT !.domain = domain,
                                     !.description = description.text],
                        energy_space)
         IN  [self |-> set.self, err |-> set.err,
              why |-> IF set.err = "none" THEN "" ELSE "energy_space"]

\* CrossSectionFit.__init__ on the instance `self`: the instance after it,
\* the exception raised and the argument the raising statement examined
CrossSectionFit_init(round, self, domain, description, energy_space) ==
    IF Len(domain) # 2 \/ domain[1][2] > domain[2][2]
    THEN [self |-> self, err |-> "TypeError", why |-> "domain"]
    ELSE IF ~description.str
    THEN [self |-> self, err |-> "TypeError", why |-> "description"]
    ELSE LET set == energy_space_setter(round,
                        [self EXCEPT !.domain = domain,
                                     !.description = description.text],
                        energy_space)
         IN  [self |-> set.self, err |-> set.err,
              why |-> IF set.err = "none" THEN "" ELSE "energy_space"]

\* a projectile mass that is no scalar (a sequence, an array)
NonScalarMass == <<"array", 0>>
isscalar(projectile_mass) == projectile_mass # NonScalarMass

\* a domain argument that is a single number, no pair
ScalarDomain == <<<<"scalar", 1>>>>

\* the coefficient argument cast to a one-dimensional float64 array, as both
\* subclasses do it: a value that is no Iterable raises ValueError, a string
\* makes numpy.asarray raise ValueError, more than one dimension raises
\* TypeError
asarray_1d(value) ==
    IF value.t \in {"int", "float", "None"} THEN [err |-> "ValueError", s |-> <<>>]
    ELSE IF value.t = "str" THEN [err |-> "ValueError", s |-> <<>>]
    ELSE IF value.t = "nd2" THEN [err |-> "TypeError", s |-> <<>>]
    ELSE [err |-> "none", s |-> value.s]

\* mutant: the coefficients are stored after the first one was halved
BarnettChebFit_init_store_halved(round, domain, description, projectile_mass, barnett_coefficients, energy_space) ==
    LET converted == IF domain = ScalarDomain THEN domain
                     ELSE [i \in 1..Len(domain) |-> FMul(domain[i], projectile_mass)]
        base == CrossSectionFit_init(round, Blank("BarnettChebFit"), converted,
                                     description, energy_space)
        coef == asarray_1d(barnett_coefficients)
    IN  IF ~isscalar(projectile_mass)
        THEN [self |-> Blank("BarnettChebFit"), err |-> "TypeError", why |-> "projectile_mass"]
        ELSE IF domain = ScalarDomain
        THEN \* numpy.array(domain) * mass is a 0-d array, an Iterable whose
             \* len() raises TypeError before the domain message is reached
             [self |-> Blank("BarnettChebFit"), err |-> "TypeError", why |-> "len"]
        ELSE IF base.err # "none" THEN base
        ELSE IF coef.err # "none"
        THEN [self |-> base.self, err |-> coef.err, why |-> "coefficients"]
        ELSE IF Len(coef.s) = 0
        THEN [self |-> base.self, err |-> "IndexError", why |-> "coefficients"]
        ELSE [self |-> [base.self EXCEPT
                           !.barnett_coefficients =
                               [coef.s EXCEPT ![1] = FDiv(@, Num(2))],
                           !.chebyshev_coefficients =
                               [coef.s EXCEPT ![1] = FDiv(@, Num(2))],
                           !.chebyshev_domain =
                               <<FLog(base.self.domain[1]), FLog(base.self.domain[2])>>,
                           !.projectile_mass = projectile_mass],
              err |-> "none", why |-> ""]

\* mutant: the domain is handed to the base class as given, in eV/amu
BarnettChebFit_init_unconverted(round, domain, description, projectile_mass, barnett_coefficients, energy_space) ==
    LET converted == IF domain = ScalarDomain THEN domain
                     ELSE domain
        base == CrossSectionFit_init(round, Blank("BarnettChebFit"), converted,
                                     description, energy_space)
        coef == asarray_1d(barnett_coefficients)
    IN  IF ~isscalar(projectile_mass)
        THEN [self |-> Blank("BarnettChebFit"), err |-> "TypeError", why |-> "projectile_mass"]
        ELSE IF domain = ScalarDomain
        THEN \* numpy.array(domain) * mass is a 0-d array, an Iterable whose
             \* len() raises TypeError before the domain message is reached
             [self |-> Blank("BarnettChebFit"), err |-> "TypeError", why |-> "len"]
        ELSE IF base.err # "none" THEN base
        ELSE IF coef.err # "none"
        THEN [self |-> base.self, err |-> coef.err, why |-> "coefficients"]
        ELSE IF Len(coef.s) = 0
        THEN [self |-> base.self, err |-> "IndexError", why |-> "coefficients"]
        ELSE [self |-> [base.self EXCEPT
                           !.barnett_coefficients = coef.s,
                           !.chebyshev_coefficients =
                               [coef.s EXCEPT ![1] = FDiv(@, Num(2))],
                           !.chebyshev_domain =
                               <<FLog(base.self.domain[1]), FLog(base.self.domain[2])>>,
                           !.projectile_mass = projectile_mass],
              err |-> "none", why |-> ""]

\* BarnettChebFit.__init__
BarnettChebFit_init(round, domain, description, projectile_mass, barnett_coefficients, energy_space) ==
    LET converted == IF domain = ScalarDomain THEN domain
                     ELSE [i \in 1..Len(domain) |-> FMul(domain[i], projectile_mass)]
        base == CrossSectionFit_init(round, Blank("BarnettChebFit"), converted,
                                     description, energy_space)
        coef == asarray_1d(barnett_coefficients)
    IN  IF ~isscalar(projectile_mass)
        THEN [self |-> Blank("BarnettChebFit"), err |-> "TypeError", why |-> "projectile_mass"]
        ELSE IF domain = ScalarDomain
        THEN \* numpy.array(domain) * mass is a 0-d array, an Iterable whose
             \* len() raises TypeError before the domain message is reached
             [self |-> Blank("BarnettChebFit"), err |-> "TypeError", why |-> "len"]
        ELSE IF base.err # "none" THEN base
        ELSE IF coef.err # "none"
        THEN [self |-> base.self, err |-> coef.err, why |-> "coefficients"]
        ELSE IF Len(coef.s) = 0
        THEN [self |-> base.self, err |-> "IndexError", why |-> "coefficients"]
        ELSE [self |-> [base.self EXCEPT
                           !.barnett_coefficients = coef.s,
                           !.chebyshev_coefficients =
                               [coef.s EXCEPT ![1] = FDiv(@, Num(2))],
                           !.chebyshev_domain =
                               <<FLog(base.self.domain[1]), FLog(base.self.domain[2])>>,
                           !.projectile_mass = projectile_mass],
              err |-> "none", why |-> ""]

\* mutant: the activation energy is left among the coefficients
TabataFitBase_init_keep_first(round, kind, domain, description, tabata_parameters, energy_space) ==
    LET base == CrossSectionFit_init(round, Blank(kind), domain,
                                     description, energy_space)
        coef == asarray_1d(tabata_parameters)
    IN  IF base.err # "none" THEN base
        ELSE IF coef.err # "none"
        THEN [self |-> base.self, err |-> coef.err, why |-> "coefficients"]
        ELSE IF Len(coef.s) = 0
        THEN [self |-> base.self, err |-> "IndexError", why |-> "coefficients"]
        ELSE [self |-> [base.self EXCEPT
                           !.activation_energy = coef.s[1],
                           !.tabata_coefficients = coef.s],
              err |-> "none", why |-> ""]

\* TabataFitBase.__init__ (TabataFit1 adds nothing to it)
TabataFitBase_init(round, kind, domain, description, tabata_parameters, energy_space) ==
    LET base == CrossSectionFit_init(round, Blank(kind), domain,
                                     description, energy_space)
        coef == asarray_1d(tabata_parameters)
    IN  IF base.err # "none" THEN base
        ELSE IF coef.err # "none"
        THEN [self |-> base.self, err |-> coef.err, why |-> "coefficients"]
        ELSE IF Len(coef.s) = 0
        THEN [self |-> base.self, err |-> "IndexError", why |-> "coefficients"]
        ELSE [self |-> [base.self EXCEPT
                           !.activation_energy = coef.s[1],
                           !.tabata_coefficients = Tail(coef.s)],
              err |-> "none", why |-> ""]

\* the constructor call described by `a`
construct(round, a) ==
    IF a.kind = "BarnettChebFit"
    THEN BarnettChebFit_init(round, a.domain, a.description, a.projectile_mass,
                             a.coefficients, a.energy_space)
    ELSE TabataFitBase_init(round, a.kind, a.domain, a.description,
                            a.coefficients, a.energy_space)

\* the domain property
domain_accessor(self) == self.domain

\* the tuple tabata_parameters that TabataFitBase.__repr__ prints
repr_tabata_parameters(self) ==
    <<self.activation_energy>> \o self.tabata_coefficients

\* ------------------------------------------------------------------ inputs
Nums(S) == {Num(n) : n \in S}
SeqOf(ns) == [i \in 1..Len(ns) |-> Num(ns[i])]

\* domains: the pairs (b, b), (b, MaxE) and (MaxE, b) for b in 0..MaxE, so
\* ordered or not, a triple and a single number
DomainArgs ==
    {<<Num(b), Num(b)>> : b \in 0..MaxE}
    \cup {<<Num(b), Num(MaxE)>> : b \in 0..MaxE}
    \cup {<<Num(MaxE), Num(b)>> : b \in 0..MaxE}
    \cup {SeqOf(<<1, 1, 1>>), ScalarDomain}

DescArgs == {StrDesc("H + H2 -> total fast H+"), NonStrDesc}

\* Barnett coefficients as published (the first is twice the T0 coefficient)
BarnettArgs == {SeqArg(SeqOf(<<3, 1, 2>>))}

\* coefficient arguments that are no one-dimensional numeric sequence (a
\* number, a nested sequence, a string), and the empty sequence
BadCoefArgs == {IntArg(1), Nd2Arg, StrArg, SeqArg(<<>>)}

\* projectile masses (amu): from 2 up, a negative one and one that is no scalar
MassArgs == {Num(m) : m \in 2..MaxMass} \cup {Num(-1), NonScalarMass}

\* Tabata parameters (Eth, a1, a2, a3, a4): a regular set, one whose
\* exponents a2 and a4 are 0, one too short for f2, and one that holds the
\* activation energy alone
TabataArgs ==
    {SeqArg(SeqOf(<<1, 1, 2, 1, 1>>)), SeqArg(SeqOf(<<0, 1, 0, 1, 0>>)),
     SeqArg(SeqOf(<<1, 1, 2>>)), SeqArg(SeqOf(<<1>>))}

\* energy_space arguments of a constructor: the default, and a bad one
CtorGrids == {IntArg(DefaultEnergySpace), Nd2Arg}

CtorArgs ==
    {[kind |-> "BarnettChebFit", domain |-> d, description |-> t,
      projectile_mass |-> m, coefficients |-> c, energy_space |-> g] :
        d \in DomainArgs, t \in DescArgs, m \in MassArgs,
        c \in BarnettArgs \cup BadCoefArgs, g \in CtorGrids}
    \cup
    {[kind |-> "TabataFit1", domain |-> d, description |-> t,
      projectile_mass |-> Num(0), coefficients |-> c, energy_space |-> g] :
        d \in DomainArgs, t \in DescArgs, c \in TabataArgs \cup BadCoefArgs,
        g \in CtorGrids}

\* the domain bounds CrossSectionFit.__init__ receives
InternalBounds(a) ==
    {(IF a.kind = "BarnettChebFit" THEN a.domain[i][2] * a.projectile_mass[2]
      ELSE a.domain[i][2]) : i \in 1..Len(a.domain)}

\* the roundings of 10 ** log10(b) a libm can produce on the positive bounds:
\* exact, or one float above, or one float below (and still positive)
Roundings(a) ==
    LET B == {b \in InternalBounds(a) : b > 0}
    IN  {r \in {[b \in B |-> e] : e \in -1..1} : \A b \in B : b + r[b] >= 1}

\* scalar energies assigned as grid, and the energies of assigned sequences
Energies == {Num(1), Num(2), Num(3), NaN}
SeqEnergies == {Num(1), Num(3)}

RECURSIVE SeqsUpTo(_, _)
SeqsUpTo(S, n) ==
    IF n = 0 THEN {<<>>}
    ELSE LET shorter == SeqsUpTo(S, n - 1)
         IN  shorter \cup {Append(q, v) : q \in shorter, v \in S}

\* the values assigned as grid
GridArgs ==
    {IntArg(n) : n \in -1..MaxCount}
    \cup {FloatArg(v) : v \in Energies}
    \cup {SeqArg(vs) : vs \in SeqsUpTo(SeqEnergies, MaxLen)}
    \cup {Nd2Arg, StrArg, NoneArg}

\* ----------------------------------------------------------- state machine
VARIABLES
    pc,        \* "live": the constructor returned; "failed": it raised
    ctor,      \* the constructor's arguments
    libm,      \* the platform's rounding of 10 ** log10(bound)
    self,      \* the instance's attributes
    op,        \* the last operation (a plot that went through is the
               \* __call__ it made) and its argument
    err,       \* the exception the last operation raised, or "none"
    why,       \* the argument whose examination made the constructor raise
    ret,       \* the value the last __call__ returned
    computed,  \* the last operation invoked _fit_function
    nfit,      \* _fit_function invocations since the last grid assignment
    neval,     \* __call__ evaluations, returned or raised, since then
    had_cache, \* _sigma held a value when the last grid assignment began
    threads,   \* the position, argument, pending value and return value of
               \* each thread inside __call__; <<>> without concurrent callers
    peer,      \* a second instance (its constructor arguments and
               \* attributes); <<>> where only one instance exists
    caller     \* the objects the caller holds by reference: the coefficient
               \* sequence it passed and the array it was returned; <<>>
               \* where the caller's objects are not followed

vars == <<pc, ctor, libm, self, op, err, why, ret, computed, nfit, neval, had_cache, threads, peer, caller>>

\* the state after a constructor call with arguments drawn from A
InitWith(A) ==
    \E a \in A :
        \E r \in Roundings(a) :
            LET c == construct(r, a)
            IN  /\ ctor = a
                /\ libm = r
                /\ self = c.self
                /\ err = c.err
                /\ why = c.why
                /\ pc = IF c.err = "none" THEN "live" ELSE "failed"
                /\ op = [name |-> "init", arg |-> a.energy_space]
                /\ ret = NoneSigma
                /\ computed = FALSE
                /\ nfit = 0
                /\ neval = 0
                /\ had_cache = FALSE

Init == InitWith(CtorArgs) /\ threads = <<>> /\ peer = <<>> /\ caller = <<>>

\* curve.energy_space = value
SetGrid(value) ==
    /\ pc = "live"
    /\ \E r \in {energy_space_setter(libm, self, value)} :
           /\ self' = r.self
           /\ err' = r.err
    /\ op' = [name |-> "set", arg |-> value]
    /\ ret' = NoneSigma
    /\ computed' = FALSE
    /\ nfit' = 0
    /\ neval' = 0
    /\ had_cache' = (self.sigma # NoneSigma)
    /\ UNCHANGED <<pc, ctor, libm, why, threads, peer, caller>>

\* curve(energies), energies given
EvaluateAt(energies) ==
    /\ pc = "live"
    /\ energies.t # "None"
    /\ \E r \in {call(libm, self, energies)} :
           /\ self' = r.self
           /\ err' = r.err
           /\ ret' = r.ret
           /\ computed' = r.computed
           /\ nfit' = IF r.computed THEN 1 ELSE 0
           /\ neval' = IF r.computed THEN 1 ELSE 0
    /\ op' = [name |-> "call", arg |-> energies]
    /\ had_cache' = (self.sigma # NoneSigma)
    /\ UNCHANGED <<pc, ctor, libm, why, threads, peer, caller>>

\* curve()
Evaluate ==
    /\ pc = "live"
    /\ neval < MaxEvals
    /\ \E r \in {call(libm, self, NoneArg)} :
           /\ self' = r.self
           /\ err' = r.err
           /\ ret' = r.ret
           /\ computed' = r.computed
           /\ nfit' = IF r.computed THEN nfit + 1 ELSE nfit
    /\ neval' = neval + 1
    /\ op' = [name |-> "call", arg |-> NoneArg]
    /\ UNCHANGED <<pc, ctor, libm, why, had_cache, threads, peer, caller>>

\* the ax arguments of plot: None, an Axes, and an object that is no Axes
AxArgs == {"None", "Axes", "object"}

\* curve.plot(ax): an object that is no Axes raises TypeError before the
\* instance is touched; else the curve is evaluated by self() and handed,
\* with the grid, to loglog, which is outside this model
Plot(ax) ==
    /\ pc = "live"
    /\ IF ax = "object"
       THEN /\ op' = [name |-> "plot", arg |-> NoneArg]
            /\ err' = "TypeError"
            /\ ret' = NoneSigma
            /\ computed' = FALSE
            /\ UNCHANGED <<self, nfit, neval>>
       ELSE /\ neval < MaxEvals
            /\ \E r \in {call(libm, self, NoneArg)} :
                   /\ self' = r.self
                   /\ err' = r.err
                   /\ ret' = r.ret
                   /\ computed' = r.computed
                   /\ nfit' = IF r.computed THEN nfit + 1 ELSE nfit
            /\ neval' = neval + 1
            /\ op' = [name |-> "call", arg |-> NoneArg]
    /\ UNCHANGED <<pc, ctor, libm, why, had_cache, threads, peer, caller>>

Next ==
    \/ \E value \in GridArgs : SetGrid(value)
    \/ \E energies \in GridArgs : EvaluateAt(energies)
    \/ \E ax \in AxArgs : Plot(ax)
    \/ Evaluate

Spec == Init /\ [][Next]_vars

\* ------------------------------------------- the semi-empirical variants
\* every variant on thirteen distinct parameters (Eth = 1, a1..a12 = 2..13),
\* and variant #1 on parameters whose exponent a2 is positive, zero or
\* negative and whose a3 is zero
VariantKinds ==
    {"TabataFit1", "TabataFit2", "TabataFit3", "TabataFit6", "TabataFit8",
     "TabataFit10", "TabataFit11", "TabataFit13", "TabataFit14"}

VariantCtorArgs ==
    {[kind |-> k, domain |-> <<Num(1), Num(3)>>,
      description |-> StrDesc("H + H2 -> total fast H+"),
      projectile_mass |-> Num(0),
      coefficients |-> SeqArg(SeqOf(<<1, 2, 3, 4, 5, 6, 7, 8, 9, 10, 11, 12, 13>>)),
      energy_space |-> IntArg(DefaultEnergySpace)] : k \in VariantKinds}
    \cup
    {[kind |-> "TabataFit1", domain |-> <<Num(1), Num(3)>>,
      description |-> StrDesc("H + H2 -> total fast H+"),
      projectile_mass |-> Num(0), coefficients |-> SeqArg(SeqOf(c)),
      energy_space |-> IntArg(DefaultEnergySpace)] :
        c \in {<<1, 1, 2, 1, 1>>, <<1, 1, 2, 1, -3>>, <<1, 1, 0, 1, 0>>,
               <<1, 1, -1, 1, 1>>, <<1, 1, 2, 0, 1>>, <<1, 1, 2, 0, -2>>, <<1, 1, 2>>}}

\* scalar energies from the activation energy (x = 0) upwards
VariantEnergies == {Num(1), Num(2), Num(3)}

\* the number of coefficients a1..aN the primitives of each variant index:
\* #1 f2; #2 f2 and a5, a6; #3 f2 + f2_2; #6 f2 + f1_2; #8 f2 + f3_3;
\* #10 f3 + a7 f3(x / a8); #11 f3 + f2_3; #13 f3 + f3_2; #14 f4
coefficients_read(kind) ==
    CASE kind = "TabataFit1" -> 4
      [] kind = "TabataFit2" -> 6
      [] kind = "TabataFit3" -> 8
      [] kind = "TabataFit6" -> 6
      [] kind = "TabataFit8" -> 9
      [] kind = "TabataFit10" -> 8
      [] kind = "TabataFit11" -> 10
      [] kind = "TabataFit13" -> 12
      [] kind = "TabataFit14" -> 8

\* variants built with four coefficients, fewer than all but #1 index
ShortCtorArgs ==
    {[kind |-> k, domain |-> <<Num(1), Num(3)>>,
      description |-> StrDesc("H + H2 -> total fast H+"),
      projectile_mass |-> Num(0), coefficients |-> SeqArg(SeqOf(<<1, 1, 2, 1, 1>>)),
      energy_space |-> IntArg(DefaultEnergySpace)] : k \in VariantKinds}

InitVariants == InitWith(VariantCtorArgs \cup ShortCtorArgs) /\ threads = <<>> /\ peer = <<>> /\ caller = <<>>

NextVariants ==
    \/ \E e \in VariantEnergies : EvaluateAt(FloatArg(e))
    \/ Evaluate

SpecVariants == InitVariants /\ [][NextVariants]_vars

\* ------------------------------------------- two threads, one instance
\* Two threads call fit(energies) on one instance without a lock.  Python
\* may switch threads between any two statements, so __call__ and the
\* setter it runs are taken one attribute access at a time.
Threads == {1, 2}
Other(t) == 3 - t

\* instances shared by the threads, and the energies each thread passes
RaceCtorArgs ==
    {a \in VariantCtorArgs : /\ a.kind \in {"TabataFit1", "TabataFit2"}
                             /\ a.coefficients.s \in {SeqOf(<<1, 1, 2, 1, 1>>), SeqOf(<<1, 2, 3, 4, 5, 6, 7, 8, 9, 10, 11, 12, 13>>)}}
RaceEnergies == {FloatArg(Num(2)), FloatArg(Num(3)), SeqArg(<<Num(1), Num(3)>>)}

\* what the steps of a thread leave alone: the record of the last operation
\* made outside the threads
sequential == <<pc, ctor, libm, op, err, why, ret, computed, nfit, neval, had_cache, peer, caller>>

\* a thread between its first and its last statement of __call__
InProgress(u) == threads[u].pc \notin {"start", "done"}

\* thread t moves on with local state r; a step taken while the other thread
\* is inside __call__ marks both calls as overlapping
Moved(t, r) ==
    IF InProgress(Other(t))
    THEN [threads EXCEPT ![t] = [r EXCEPT !.overlapped = TRUE],
                         ![Other(t)].overlapped = TRUE]
    ELSE [threads EXCEPT ![t] = r]

InitRace ==
    /\ InitWith(RaceCtorArgs)
    /\ peer = <<>> /\ caller = <<>>
    /\ \E e1, e2 \in RaceEnergies :
           /\ e1 # e2
           /\ threads = [t \in Threads |->
                            [pc |-> "start", energies |-> IF t = 1 THEN e1 ELSE e2,
                             tmp |-> NoneSigma, ret |-> NoneSigma,
                             overlapped |-> FALSE]]

\* mutant: the setter leaves the cached values in place
ClearCache_keep(t) ==
    /\ threads[t].pc = "start"
    /\ threads' = Moved(t, [threads[t] EXCEPT !.pc = "grid"])
    /\ UNCHANGED <<self, sequential>>

\* setter, self._sigma = None
ClearCache(t) ==
    /\ threads[t].pc = "start"
    /\ self' = [self EXCEPT !.sigma = NoneSigma]
    /\ threads' = Moved(t, [threads[t] EXCEPT !.pc = "grid"])
    /\ UNCHANGED sequential

\* setter, self._energy_space = self._allowed_energies(asarray(value))
WriteGrid(t) ==
    /\ threads[t].pc = "grid"
    /\ self' = [self EXCEPT !.energy_space =
                    allowed_energies(self.domain, asarray(threads[t].energies))]
    /\ threads' = Moved(t, [threads[t] EXCEPT !.pc = "repr"])
    /\ UNCHANGED sequential

\* setter, self._energy_repr = value
WriteRepr(t) ==
    /\ threads[t].pc = "repr"
    /\ self' = [self EXCEPT !.energy_repr = asarray(threads[t].energies)]
    /\ threads' = Moved(t, [threads[t] EXCEPT !.pc = "test"])
    /\ UNCHANGED sequential

\* __call__, if self._sigma is None
TestCache(t) ==
    /\ threads[t].pc = "test"
    /\ threads' = Moved(t, [threads[t] EXCEPT
                                !.pc = IF self.sigma = NoneSigma
                                       THEN "compute" ELSE "return"])
    /\ UNCHANGED <<self, sequential>>

\* __call__, self._fit_function(self._energy_space): the grid is read and
\* the values are computed, not yet stored
ReadGridAndCompute(t) ==
    /\ threads[t].pc = "compute"
    /\ threads' = Moved(t, [threads[t] EXCEPT
                                !.pc = "store",
                                !.tmp = fit_function(self, self.energy_space).val])
    /\ UNCHANGED <<self, sequential>>

\* __call__, self._sigma = <the values computed>
WriteCache(t) ==
    /\ threads[t].pc = "store"
    /\ self' = [self EXCEPT !.sigma = threads[t].tmp]
    /\ threads' = Moved(t, [threads[t] EXCEPT !.pc = "return"])
    /\ UNCHANGED sequential

\* __call__, return self._sigma
ReturnCache(t) ==
    /\ threads[t].pc = "return"
    /\ threads' = Moved(t, [threads[t] EXCEPT !.pc = "done", !.ret = self.sigma])
    /\ UNCHANGED <<self, sequential>>

NextRace ==
    \E t \in Threads :
        \/ ClearCache(t)
        \/ WriteGrid(t)
        \/ WriteRepr(t)
        \/ TestCache(t)
        \/ ReadGridAndCompute(t)
        \/ WriteCache(t)
        \/ ReturnCache(t)

SpecRace == InitRace /\ [][NextRace]_vars

\* ---------------------------------------- two threads, two instances
\* Each thread calls fit(energies) on an instance of its own: thread 1 on
\* self, thread 2 on peer.  Every attribute the statements of __call__ and
\* of the setter touch is an attribute of the instance the call was made
\* on (self._sigma, self._energy_space, self._energy_repr); the class holds
\* no attribute of its own.

\* the statement of __call__ (with the setter it runs) at which thread th
\* stands, executed on instance inst
call_step(inst, th) ==
    CASE th.pc = "start" ->
             [inst |-> [inst EXCEPT !.sigma = NoneSigma],
              th |-> [th EXCEPT !.pc = "grid"]]
      [] th.pc = "grid" ->
             [inst |-> [inst EXCEPT !.energy_space =
                           allowed_energies(inst.domain, asarray(th.energies))],
              th |-> [th EXCEPT !.pc = "repr"]]
      [] th.pc = "repr" ->
             [inst |-> [inst EXCEPT !.energy_repr = asarray(th.energies)],
              th |-> [th EXCEPT !.pc = "test"]]
      [] th.pc = "test" ->
             [inst |-> inst,
              th |-> [th EXCEPT !.pc = IF inst.sigma = NoneSigma
                                       THEN "compute" ELSE "return"]]
      [] th.pc = "compute" ->
             [inst |-> inst,
              th |-> [th EXCEPT !.pc = "store",
                                !.tmp = fit_function(inst, inst.energy_space).val]]
      [] th.pc = "store" ->
             [inst |-> [inst EXCEPT !.sigma = th.tmp],
              th |-> [th EXCEPT !.pc = "return"]]
      [] th.pc = "return" ->
             [inst |-> inst,
              th |-> [th EXCEPT !.pc = "done", !.ret = inst.sigma]]

PairEnergies == RaceEnergies \cup {FloatArg(Num(1))}

InitPair ==
    /\ InitWith(RaceCtorArgs)
    /\ \E a \in RaceCtorArgs :
           peer = [ctor |-> a, self |-> construct(libm, a).self]
    /\ \E e1, e2 \in PairEnergies :
           threads = [t \in Threads |->
                         [pc |-> "start", energies |-> IF t = 1 THEN e1 ELSE e2,
                          tmp |-> NoneSigma, ret |-> NoneSigma,
                          overlapped |-> FALSE]]
    /\ caller = <<>>

\* mutant: the cache is an attribute of the class, one for all instances
StepOnPeer_shared_cache ==
    /\ threads[2].pc # "done"
    /\ \E r \in {call_step(peer.self, threads[2])} :
           /\ peer' = [peer EXCEPT !.self = r.inst]
           /\ self' = [self EXCEPT !.sigma = r.inst.sigma]
           /\ threads' = Moved(2, r.th)
    /\ UNCHANGED <<pc, ctor, libm, op, err, why, ret, computed, nfit, neval, had_cache, caller>>

\* thread 1 executes its next statement, on self
StepOnSelf ==
    /\ threads[1].pc # "done"
    /\ \E r \in {call_step(self, threads[1])} :
           /\ self' = r.inst
           /\ threads' = Moved(1, r.th)
    /\ UNCHANGED sequential

\* thread 2 executes its next statement, on peer
StepOnPeer ==
    /\ threads[2].pc # "done"
    /\ \E r \in {call_step(peer.self, threads[2])} :
           /\ peer' = [peer EXCEPT !.self = r.inst]
           /\ threads' = Moved(2, r.th)
    /\ UNCHANGED <<self, pc, ctor, libm, op, err, why, ret, computed, nfit, neval, had_cache, caller>>

NextPair == StepOnSelf \/ StepOnPeer

SpecPair == InitPair /\ [][NextPair]_vars

\* ------------------------------------------------- the reaction database
\* The TabataFit entries of database.py, dictionary by dictionary.  Energies
\* (the domain bounds and the activation energy, first of the parameters)
\* are on a lattice of 0.01 eV, on which every bound of the database lies:
\* 5.62e1 eV is Num(5620).  The coefficients are carried as the literals of
\* the source; the values an entry's fit returns are therefore symbolic, and
\* only orderings, counts and raised exceptions are read off this
\* specification.
Hp_from_H2_target ==
    {
     [name |-> "H + H2 -> total fast H+", kind |-> "TabataFit2",
      domain |-> <<Num(5620), Num(11200000)>>,
      description |-> "Total H+ production from H + H2.",
      tabata_parameters |->
          <<Num(2000), Lit("2.53e-4"), Lit("1.728"), Lit("2.164"),
             Lit("7.74e-1"), Lit("1.639"), Lit("1.43e1")>>],
     [name |-> "H- + H2 -> total fast H+", kind |-> "TabataFit6",
      domain |-> <<Num(100000), Num(30000000)>>,
      description |-> "Total H+ production from H- + H2.",
      tabata_parameters |->
          <<Num(0), Lit("1.75e-8"), Lit("3.88"), Lit("9.06e-1"),
             Lit("-2.74e-1"), Lit("3.19"), Lit("1.19")>>]
    }

H_from_H2_target ==
    {
     [name |-> "H+ + H2 -> total fast H", kind |-> "TabataFit8",
      domain |-> <<Num(316), Num(10000000)>>,
      description |-> "Total H production from H+ + H2.",
      tabata_parameters |->
          <<Num(250), Lit("2.12e2"), Lit("1.721"), Lit("6.7e-4"),
             Lit("3.239e-1"), Lit("4.34e-3"), Lit("1.296"), Lit("1.42e-1"),
             Lit("9.34"), Lit("2.997")>>],
     [name |-> "H- + H2 -> total fast H", kind |-> "TabataFit11",
      domain |-> <<Num(237), Num(5000000)>>,
      description |-> "Total H production from H- + H2.",
      tabata_parameters |->
          <<Num(225), Lit("4.19e-2"), Lit("1.89"), Lit("1.78e-1"),
             Lit("-2.3e-1"), Lit("1.04"), Lit("8.7e-1"), Lit("1.65e1"),
             Lit("1.088"), Lit("5.33e-3"), Lit("1.66e-1")>>]
    }

Hm_from_H2_target ==
    {
     [name |-> "H + H2 -> total fast H-", kind |-> "TabataFit13",
      domain |-> <<Num(2370), Num(9110000)>>,
      description |-> "Total H- production from H + H2.",
      tabata_parameters |->
          <<Num(2100), Lit("9.73e-3"), Lit("2.38"), Lit("1.39e-2"),
             Lit("-5.51e-1"), Lit("7.7e-2"), Lit("2.12"), Lit("1.97e-6"),
             Lit("2.051"), Lit("5.5"), Lit("6.62e-1"), Lit("2.02e1"),
             Lit("3.62")>>]
    }

H2p_from_H2_target ==
    {
     [name |-> "H2 + H2 -> total fast H2+", kind |-> "TabataFit10",
      domain |-> <<Num(4210), Num(9900000)>>,
      description |-> "Total H2+ production from H2 + H2.",
      tabata_parameters |->
          <<Num(3200), Lit("1.879e-3"), Lit("2.497"), Lit("6.62e-2"),
             Lit("-4.67e-1"), Lit("3.58e-1"), Lit("5.0e-1"), Lit("7.67"),
             Lit("2.01e+2")>>]
    }

H2_from_H2_target ==
    {
     [name |-> "H+ + H2 -> H2 momentum transfer", kind |-> "TabataFit1",
      domain |-> <<Num(10), Num(1000000)>>,
      description |-> "H2 production from H+ + H2 due to momentum transfer.",
      tabata_parameters |->
          <<Num(0), Lit("5.74"), Lit("-5.765e-1"), Lit("2.79e-2"),
             Lit("1.737")>>],
     [name |-> "H + H2 -> H2 momentum transfer", kind |-> "TabataFit6",
      domain |-> <<Num(10), Num(1000000)>>,
      description |-> "H2 production from H- + H2 due to momentum transfer.",
      tabata_parameters |->
          <<Num(0), Lit("6.36"), Lit("-3.37e-1"), Lit("5.5e-3"),
             Lit("8.3e-1"), Lit("2.6e-2"), Lit("1.766")>>],
     [name |-> "H- + H2 -> H2 momentum transfer", kind |-> "TabataFit6",
      domain |-> <<Num(10), Num(1000000)>>,
      description |-> "H2 production from H + H2 due to momentum transfer.",
      tabata_parameters |->
          <<Num(0), Lit("2.97e1"), Lit("4.095e-3"), Lit("1.11e-4"),
             Lit("5.55e-1"), Lit("6.0e-3"), Lit("1.607")>>],
     [name |-> "H3+ + H2 -> H2 momentum transfer", kind |-> "TabataFit14",
      domain |-> <<Num(10), Num(1000000)>>,
      description |-> "H2 production from H3+ + H2 due to momentum transfer.",
      tabata_parameters |->
          <<Num(0), Lit("1.16"), Lit("-8.12e-1"), Lit("4.29e-4"),
             Lit("-1.38e-1"), Lit("1.28e-2"), Lit("1.33"), Lit("8.67e-2"),
             Lit("2.18")>>]
    }

H3p_from_H2_target ==
    {
     [name |-> "H2+ + H2 -> H3+ + H", kind |-> "TabataFit6",
      domain |-> <<Num(10), Num(1780)>>,
      description |-> "H3+ production from H2+ + H2.",
      tabata_parameters |->
          <<Num(0), Lit("6.05"), Lit("-5.247e-1"), Lit("4.088e-3"),
             Lit("2.872"), Lit("7.3e-3"), Lit("6.99")>>]
    }

semi_empirical_entries ==
    Hp_from_H2_target \cup H_from_H2_target \cup Hm_from_H2_target
    \cup H2p_from_H2_target \cup H2_from_H2_target \cup H3p_from_H2_target

\* the grid count of the entries: none passes energy_space, so the default
\* applies; the model takes the low end of the log-spaced grid, the energy
\* nearest to the activation energy (the bounds of the database are too far
\* apart for interior points to be computed on the lattice)
DatabaseEnergySpace == 1

\* ftc.TabataFitN(domain, description, tabata_parameters) of an entry
entry_call(e) ==
    [kind |-> e.kind, domain |-> e.domain, description |-> StrDesc(e.description),
     projectile_mass |-> Num(0), coefficients |-> SeqArg(e.tabata_parameters),
     energy_space |-> IntArg(DatabaseEnergySpace)]

DatabaseCtorArgs == {entry_call(e) : e \in semi_empirical_entries}

\* energies around the bounds of the instance's domain and around its
\* activation energy, and the grids made of them
DatabasePlaces ==
    {<<"lo", -1>>, <<"lo", 0>>, <<"lo", 1>>, <<"hi", 0>>, <<"hi", 1>>,
     <<"Eth", -1>>, <<"Eth", 0>>}
EnergyAt(inst, place) ==
    Num((CASE place[1] = "lo" -> inst.domain[1][2]
           [] place[1] = "hi" -> inst.domain[2][2]
           [] place[1] = "Eth" -> inst.activation_energy[2]) + place[2])
DatabaseGridShapes ==
    {<<"int", n>> : n \in 0..DatabaseEnergySpace}
    \cup {<<"float", v>> : v \in DatabasePlaces}
    \cup {<<"seq", v, w>> : v, w \in {<<"Eth", -1>>, <<"lo", 0>>, <<"hi", 1>>}}
GridArgAt(inst, shape) ==
    CASE shape[1] = "int" -> IntArg(shape[2])
      [] shape[1] = "float" -> FloatArg(EnergyAt(inst, shape[2]))
      [] shape[1] = "seq" -> SeqArg(<<EnergyAt(inst, shape[2]), EnergyAt(inst, shape[3])>>)

InitDatabase == InitWith(DatabaseCtorArgs) /\ threads = <<>> /\ peer = <<>> /\ caller = <<>>

NextDatabase ==
    \/ \E shape \in DatabaseGridShapes : SetGrid(GridArgAt(self, shape))
    \/ \E shape \in DatabaseGridShapes : EvaluateAt(GridArgAt(self, shape))
    \/ Evaluate

SpecDatabase == InitDatabase /\ [][NextDatabase]_vars

\* ------------------------------------------------ the caller's objects
\* Two objects stay in the caller's hands across the calls: the sequence it
\* passed as barnett_coefficients, and the value __call__ returned.  The
\* variable caller follows their contents, and whether the returned object
\* is the very object the instance holds as _sigma.

\* a float64 ndarray, and an integer ndarray, passed as coefficients
NdArrayArg(vs) == [t |-> "ndarray", n |-> 0, s |-> vs]
IntNdArrayArg(vs) == [t |-> "intarray", n |-> 0, s |-> vs]

\* numpy.asarray(value, dtype=float64) returns value itself, not a copy,
\* when value is a float64 ndarray
asarray_is_same_object(value) == value.t = "ndarray"

\* the object passed as barnett_coefficients once BarnettChebFit.__init__ is
\* over: barnett_coefficients[0] /= 2 acts on what asarray returned
barnett_coefficients_after(round, a) ==
    IF /\ a.kind = "BarnettChebFit"
       /\ construct(round, a).err = "none"
       /\ asarray_is_same_object(a.coefficients)
    THEN [a.coefficients EXCEPT !.s[1] = FDiv(@, Num(2))]
    ELSE a.coefficients

CallerCtorArgs ==
    {[kind |-> "BarnettChebFit", domain |-> <<Num(1), Num(2)>>,
      description |-> StrDesc("H + H2 -> total fast H+"),
      projectile_mass |-> Num(2), coefficients |-> c,
      energy_space |-> IntArg(DefaultEnergySpace)] :
        c \in {SeqArg(SeqOf(<<3, 1, 2>>)), NdArrayArg(SeqOf(<<3, 1, 2>>)),
               IntNdArrayArg(SeqOf(<<3, 1, 2>>)), NdArrayArg(<<>>)}}
    \cup
    {[kind |-> "TabataFit1", domain |-> <<Num(1), Num(3)>>,
      description |-> StrDesc("H + H2 -> total fast H+"),
      projectile_mass |-> Num(0), coefficients |-> c,
      energy_space |-> IntArg(DefaultEnergySpace)] :
        c \in {SeqArg(SeqOf(<<1, 1, 2, 1, 1>>)), NdArrayArg(SeqOf(<<1, 1, 2, 1, 1>>))}}

CallerGridArgs ==
    {IntArg(2), FloatArg(Num(2)), SeqArg(<<Num(2), Num(3)>>), SeqArg(<<Num(3)>>), Nd2Arg}

InitCaller ==
    /\ InitWith(CallerCtorArgs)
    /\ caller = [coefficients |-> barnett_coefficients_after(libm, ctor),
                 returned |-> NoneSigma, aliased |-> FALSE]
    /\ threads = <<>> /\ peer = <<>>

\* curve.energy_space = value: _sigma = None, the instance lets go of the
\* array it held
CallerSetGrid(value) ==
    /\ pc = "live"
    /\ \E r \in {energy_space_setter(libm, self, value)} :
           /\ self' = r.self
           /\ err' = r.err
    /\ op' = [name |-> "set", arg |-> value]
    /\ ret' = NoneSigma
    /\ computed' = FALSE
    /\ nfit' = 0
    /\ neval' = 0
    /\ had_cache' = (self.sigma # NoneSigma)
    /\ caller' = [caller EXCEPT !.aliased = FALSE]
    /\ UNCHANGED <<pc, ctor, libm, why, threads, peer>>

\* value = curve(energies) or value = curve(): return self._sigma hands out
\* the object itself; an ndarray can be written to, a numpy float cannot
CallerEvaluate(energies) ==
    /\ pc = "live"
    /\ neval < MaxEvals
    /\ \E r \in {call(libm, self, energies)} :
           /\ self' = r.self
           /\ err' = r.err
           /\ ret' = r.ret
           /\ computed' = r.computed
           /\ nfit' = IF energies # NoneArg THEN (IF r.computed THEN 1 ELSE 0)
                      ELSE IF r.computed THEN nfit + 1 ELSE nfit
           /\ caller' = IF r.err = "none"
                         THEN [caller EXCEPT !.returned = r.ret,
                                             !.aliased = (r.ret.t = "array")]
                         ELSE [caller EXCEPT !.aliased = FALSE]
    /\ neval' = IF energies # NoneArg THEN 1 ELSE neval + 1
    /\ op' = [name |-> "call", arg |-> energies]
    /\ had_cache' = IF energies # NoneArg THEN self.sigma # NoneSigma ELSE had_cache
    /\ UNCHANGED <<pc, ctor, libm, why, threads, peer>>

\* value[i] = v, by the caller, on the array it was returned
ModifyReturned(i, v) ==
    /\ pc = "live"
    /\ caller.returned.t = "array"
    /\ i \in 1..Len(caller.returned.s)
    /\ caller' = [caller EXCEPT !.returned.s[i] = v]
    /\ self' = IF caller.aliased THEN [self EXCEPT !.sigma.s[i] = v] ELSE self
    /\ op' = [name |-> "modify", arg |-> NoneArg]
    /\ UNCHANGED <<pc, ctor, libm, err, why, ret, computed, nfit, neval, had_cache, threads, peer>>

NextCaller ==
    \/ \E value \in CallerGridArgs : CallerSetGrid(value)
    \/ \E energies \in CallerGridArgs \cup {NoneArg} : CallerEvaluate(energies)
    \/ \E i \in 1..2 : ModifyReturned(i, Num(0))

SpecCaller == InitCaller /\ [][NextCaller]_vars

\* ------------------------------------------------------------------ claims
Live == pc = "live"
lo == self.domain[1][2]
hi == self.domain[2][2]
\* the last operation was a grid assignment of its own or inside __call__
Assigned == Live /\ (op.name = "set" \/ (op.name = "call" /\ op.arg.t # "None"))
\* the energy_space setter raised (a raising _fit_function gives IndexError)
Rejected == err \in {"TypeError", "ValueError"}
\* the lattice value v lies in the instance's domain
Inside(v) == IsNum(v) /\ lo <= v[2] /\ v[2] <= hi
Abs(n) == IF n < 0 THEN -n ELSE n

\* C1 (as stated): after any number of consecutive evaluations that follow a
\* grid assignment or the construction, _fit_function has been invoked
\* exactly once.
C1_OnceInTotal == (Live /\ neval >= 1) => nfit = 1

\* C1 (amended): _fit_function is invoked only by __call__; consecutive
\* evaluations in which it returns invoke it exactly once in total and each
\* returns the cached value; when it raises, the cache stays empty and each
\* of the evaluations has invoked it.
C1_ComputedOnce ==
    Live =>
        /\ computed => op.name = "call"
        /\ (op.name = "call" /\ neval >= 1 /\ err = "none") =>
               /\ nfit = 1
               /\ ret # NoneSigma
               /\ ret = self.sigma
        /\ (op.name = "call" /\ neval >= 1 /\ err # "none") =>
               /\ nfit = neval
               /\ self.sigma = NoneSigma

\* two consecutive evaluate() calls, the second served from the cache
C1_Witness ==
    /\ Live /\ neval = 2 /\ nfit = 1 /\ err = "none"
    /\ op.arg.t = "None" /\ ~computed

\* C2: the cache is empty or holds _fit_function of the current grid; an
\* evaluate(E2) whose E2 the setter accepts has invoked _fit_function anew,
\* whatever was cached before, and what it returns are the values of the
\* current grid, which for a scalar or a sequence E2 is E2 filtered.
C2_CacheMatchesGrid ==
    Live =>
        /\ \/ self.sigma = NoneSigma
           \/ self.sigma = fit_function(self, self.energy_space).val
        /\ (op.name = "call" /\ op.arg.t # "None" /\ ~Rejected) =>
               /\ computed
               /\ err = "none" =>
                      ret = fit_function(self, self.energy_space).val
               /\ op.arg.t \in {"float", "seq"} =>
                      self.energy_space = allowed_energies(self.domain, op.arg)

\* evaluate(E2) on an instance whose cache held the values of an earlier grid
C2_Witness ==
    /\ Live /\ had_cache /\ op.name = "call" /\ op.arg.t = "seq"
    /\ err = "none" /\ computed /\ ret.t = "array" /\ ret = self.sigma

\* C3: a grid assignment leaves the cache empty, whatever the value assigned,
\* accepted or rejected.
C3_AssignmentClearsCache ==
    (Live /\ op.name = "set") => self.sigma = NoneSigma

\* a rejected assignment on an instance whose cache held a value
C3_Witness ==
    /\ Live /\ op.name = "set" /\ had_cache /\ err = "TypeError"
    /\ self.sigma = NoneSigma

\* C4: evaluate(E) leaves the instance, raises and returns as "set grid(E);
\* evaluate()" does; evaluate() leaves the grid unchanged.
C4_EvaluateIsSetThenEvaluate ==
    [][/\ (op'.name = "call" /\ op'.arg.t # "None") =>
            \E set \in {energy_space_setter(libm, self, op'.arg)} :
                IF set.err # "none"
                THEN self' = set.self /\ err' = set.err
                ELSE \E ev \in {call(libm, set.self, NoneArg)} :
                         self' = ev.self /\ err' = ev.err /\ ret' = ev.ret
       /\ (op'.name = "call" /\ op'.arg.t = "None") =>
            /\ self'.energy_space = self.energy_space
            /\ self'.energy_repr = self.energy_repr]_vars

\* evaluate(E) with a sequence E on an instance that had a cached value
C4_Witness ==
    /\ Live /\ op.name = "call" /\ op.arg.t = "seq" /\ had_cache
    /\ err = "none" /\ self.energy_repr = op.arg

\* g is what is left of vs when the entries outside [lo, hi] are struck out:
\* some strictly increasing choice of positions of vs spells g, and these are
\* all the positions whose value lies inside
IsInDomainSubsequence(g, vs) ==
    \E f \in [1..Len(g) -> 1..Len(vs)] :
        /\ \A i \in 1..Len(g) : g[i] = vs[f[i]]
        /\ \A i \in 1..Len(g), j \in 1..Len(g) : i < j => f[i] < f[j]
        /\ \A k \in 1..Len(vs) : Inside(vs[k]) <=> (\E i \in 1..Len(g) : f[i] = k)

\* C5: a sequence with at least one value inside [lo, hi] assigned as grid
\* leaves as grid exactly its values inside the domain, bounds included, in
\* their order and with their duplicates.
C5_FilterKeepsInDomain ==
    (Assigned /\ op.arg.t = "seq" /\ (\E k \in 1..Len(op.arg.s) : Inside(op.arg.s[k])))
        => /\ ~Rejected
           /\ self.energy_space.t = "array"
           /\ IsInDomainSubsequence(self.energy_space.s, op.arg.s)

\* a sequence of which one value is dropped and one kept
C5_Witness ==
    /\ Assigned /\ op.arg.t = "seq" /\ Len(op.arg.s) = 2
    /\ self.energy_space.t = "array" /\ Len(self.energy_space.s) = 1

\* C6 (as stated): evaluate of a scalar energy outside the domain makes the
\* grid the NaN marker and, when it returns, returns NaN, for every fit.
C6_OutOfDomainScalarIsNaN ==
    (Live /\ op.name = "call" /\ op.arg.t = "float"
          /\ IsNum(op.arg.s[1]) /\ ~Inside(op.arg.s[1]))
        => /\ self.energy_space = NaNGrid
           /\ err = "none" => ret = [t |-> "scalar", s |-> <<NaN>>]

\* C7: a sequence none of whose values lies inside the domain (the empty
\* sequence too) makes the grid the NaN marker, not an empty array.
C7_EmptyFilterIsMarker ==
    (Assigned /\ op.arg.t = "seq" /\ (\A k \in 1..Len(op.arg.s) : ~Inside(op.arg.s[k])))
        => /\ ~Rejected
           /\ self.energy_space = NaNGrid
           /\ self.energy_space # ArrayGrid(<<>>)

\* a non-empty sequence filtered to nothing
C7_Witness ==
    /\ Assigned /\ op.arg.t = "seq" /\ Len(op.arg.s) > 0
    /\ self.energy_space = NaNGrid

\* the last operation evaluated a scalar, or a sequence, wholly outside
OutsideScalarCall ==
    Live /\ op.name = "call" /\ op.arg.t = "float" /\ ~Inside(op.arg.s[1])
OutsideSeqCall ==
    /\ Live /\ op.name = "call" /\ op.arg.t = "seq"
    /\ \A k \in 1..Len(op.arg.s) : ~Inside(op.arg.s[k])

\* C8: an out-of-domain scalar and a sequence wholly out of domain leave the
\* same grid marker, the float NaN, and evaluate then has the same outcome
\* (the result of _fit_function on that marker) in both cases.
C8_OneSentinel ==
    (OutsideScalarCall \/ OutsideSeqCall) =>
        /\ self.energy_space.t = "nan"
        /\ self.energy_space.s = <<NaN>>
        /\ err = fit_function(self, NaNGrid).err
        /\ ret = fit_function(self, NaNGrid).val

\* an out-of-domain scalar evaluated to the NaN result
C8_Witness ==
    /\ OutsideScalarCall /\ IsNum(op.arg.s[1]) /\ err = "none"
    /\ ret = [t |-> "scalar", s |-> <<NaN>>]

NonDecreasing(g) ==
    \A i \in 1..Len(g), j \in 1..Len(g) : i <= j => FLe(g[i], g[j])

\* the last operation, the construction included, assigned the count n >= 0
\* on a domain whose bounds are positive
CountAssigned ==
    /\ Live /\ op.arg.t = "int" /\ ~Rejected /\ lo > 0
    /\ op.name \in {"init", "set", "call"}

\* C9 (as stated): an integer n assigned on a positive domain gives n
\* non-decreasing points, the first the low bound and the last the high one.
C9_ExactEndpoints ==
    CountAssigned =>
        /\ self.energy_space.t = "array"
        /\ Len(self.energy_space.s) = op.arg.n
        /\ NonDecreasing(self.energy_space.s)
        /\ op.arg.n >= 1
        /\ self.energy_space.s[1] = Num(lo)
        /\ self.energy_space.s[op.arg.n] = Num(hi)

\* C9 (amended): n >= 0 gives exactly n non-decreasing points, unfiltered;
\* for n >= 1 the first is 10 ** log10(lo) and for n >= 2 the last is
\* 10 ** log10(hi), each the bound up to the rounding of that round trip;
\* the constructors' default count is the default energy_space.
C9_LogSpaced ==
    /\ CountAssigned =>
        LET g == self.energy_space.s
            n == op.arg.n
        IN  /\ self.energy_space.t = "array"
            /\ Len(g) = n
            /\ NonDecreasing(g)
            /\ n >= 1 => IsNum(g[1]) /\ Abs(g[1][2] - lo) <= 1
            /\ n >= 2 => IsNum(g[n]) /\ Abs(g[n][2] - hi) <= 1
            /\ n = 1 => g[1] = Pow10Log10(libm, Num(lo))
    /\ (Live /\ op.name = "init" /\ ctor.energy_space = IntArg(DefaultEnergySpace))
           => Len(self.energy_space.s) = DefaultEnergySpace

\* a count of at least 2 assigned on a domain with lo < hi
C9_Witness ==
    /\ CountAssigned /\ op.name = "set" /\ op.arg.n >= 2 /\ lo < hi
    /\ Len(self.energy_space.s) = op.arg.n

\* the constructor was given an ordered pair, a string and the default grid
OrderedPairCtorArgs ==
    /\ Len(ctor.domain) = 2
    /\ ctor.domain[1][2] <= ctor.domain[2][2]
    /\ ctor.description.str
    /\ ctor.energy_space = IntArg(DefaultEnergySpace)

\* and its remaining arguments are valid: a non-empty sequence of numbers as
\* coefficients and, for a Chebyshev fit, a scalar mass that is not negative
ValidCtorArgs ==
    /\ OrderedPairCtorArgs
    /\ ctor.coefficients.t = "seq" /\ Len(ctor.coefficients.s) >= 1
    /\ ctor.kind = "BarnettChebFit" =>
           isscalar(ctor.projectile_mass) /\ ctor.projectile_mass[2] >= 0

\* C10 (as stated): a constructor given an ordered pair (lo, hi), a string
\* and the default grid does not raise, and domain is exactly (lo, hi).
C10_DomainIsArgument ==
    OrderedPairCtorArgs => Live /\ domain_accessor(self) = ctor.domain

\* C10 (amended): such a constructor whose remaining arguments are valid
\* does not raise; domain is exactly (lo, hi) for a semi-empirical fit and
\* (lo * m, hi * m) for a Chebyshev fit of projectile mass m >= 0.
C10_ConstructionSucceeds ==
    ValidCtorArgs =>
        /\ Live
        /\ domain_accessor(self) =
               IF ctor.kind = "BarnettChebFit"
               THEN <<Num(ctor.domain[1][2] * ctor.projectile_mass[2]),
                      Num(ctor.domain[2][2] * ctor.projectile_mass[2])>>
               ELSE ctor.domain

\* a curve constructed on a domain with lo = hi
C10_Witness ==
    /\ Live /\ ValidCtorArgs /\ ctor.domain[1] = ctor.domain[2]
    /\ op.name = "init" /\ domain_accessor(self) = ctor.domain

\* d is no sequence of length 2, or its first element is above its second
BadDomain(d) == Len(d) # 2 \/ d[1][2] > d[2][2]
\* the domain argument times the projectile mass
ConvertedDomain ==
    [i \in 1..Len(ctor.domain) |->
        Num(ctor.domain[i][2] * ctor.projectile_mass[2])]
Failed(kind, arg) == pc = "failed" /\ err = kind /\ why = arg

C12_RejectedKeepsGrid ==
    [][(pc = "live" /\ op'.name \in {"set", "call"} /\ op'.arg.t \in {"nd2", "str"}) =>
          /\ err' = "TypeError"
          /\ self'.energy_space = self.energy_space
          /\ self'.energy_repr = self.energy_repr
          /\ \E before \in {fit_function(self, self.energy_space)} :
                 \E after \in {call(libm, self', NoneArg)} :
                     /\ after.err = before.err
                     /\ after.err = "none" => after.ret = before.val
                     /\ self.sigma # NoneSigma => after.ret = self.sigma]_vars

\* a two-dimensional value rejected on an instance whose array grid had
\* been evaluated: the grid is still that array
C12_Witness ==
    /\ Live /\ op.name = "set" /\ op.arg = Nd2Arg /\ err = "TypeError"
    /\ had_cache /\ self.energy_space.t = "array" /\ Len(self.energy_space.s) >= 1

\* the attributes that are no part of the grid/cache pair
Frame(inst) ==
    <<inst.kind, inst.domain, inst.description, inst.projectile_mass,
      inst.barnett_coefficients, inst.chebyshev_coefficients,
      inst.chebyshev_domain, inst.activation_energy, inst.tabata_coefficients>>

\* C13: whatever evaluations, grid assignments (accepted or rejected) and
\* plots follow the construction, the domain, the description, the mass, the
\* coefficients and the activation energy are those the constructor set;
\* a step changes at most _energy_space, _energy_repr and _sigma.
C13_OnlyGridAndCacheChange ==
    Live => Frame(self) = Frame(construct(libm, ctor).self)

\* a rejected plot on an instance that was evaluated, assigned another grid
\* and evaluated again
C13_Witness ==
    /\ Live /\ op.name = "plot" /\ had_cache
    /\ self.sigma # NoneSigma /\ self.energy_repr # ctor.energy_space

\* C14: a constructed Chebyshev fit holds the Barnett coefficients as they
\* were supplied, and as many Chebyshev coefficients, the first of which is
\* half the first Barnett coefficient and the others the Barnett ones.
C14_FirstCoefficientHalved ==
    (Live /\ self.kind = "BarnettChebFit") =>
        LET b == self.barnett_coefficients
            c == self.chebyshev_coefficients
        IN  /\ b = ctor.coefficients.s
            /\ Len(c) = Len(b)
            /\ c[1] = FDiv(b[1], Num(2))
            /\ \A i \in 2..Len(b) : c[i] = b[i]

\* a Chebyshev fit of three coefficients, evaluated
C14_Witness ==
    /\ Live /\ self.kind = "BarnettChebFit" /\ Len(self.barnett_coefficients) = 3
    /\ op.name = "call" /\ self.sigma # NoneSigma

\* a Chebyshev constructor given a pair as domain and a scalar as mass
ChebyshevPairCtor ==
    /\ ctor.kind = "BarnettChebFit" /\ isscalar(ctor.projectile_mass)
    /\ Len(ctor.domain) = 2

\* C15: a Chebyshev fit's domain is the domain argument times the mass, and
\* it is this converted domain that the ordering check tests, the default
\* grid spans and the filter of assigned energies uses.
C15_ConvertedDomain ==
    ChebyshevPairCtor =>
        /\ Failed("TypeError", "domain") <=> BadDomain(ConvertedDomain)
        /\ Live => domain_accessor(self) = ConvertedDomain
        /\ (Live /\ op.name = "init") =>
               self.energy_space =
                   ArrayGrid(LogSpace(libm, ConvertedDomain, DefaultEnergySpace))
        /\ (Assigned /\ op.arg.t \in {"float", "seq"}) =>
               self.energy_space = allowed_energies(ConvertedDomain, op.arg)

\* an energy above the domain argument and inside the converted domain is
\* kept by the filter
C15_Witness ==
    /\ Live /\ ChebyshevPairCtor /\ ctor.projectile_mass = Num(2)
    /\ ctor.domain = <<Num(1), Num(2)>>
    /\ Assigned /\ op.arg = SeqArg(<<Num(1), Num(3)>>)
    /\ self.energy_space = ArrayGrid(<<Num(3)>>)

\* coefficient arguments that are no one-dimensional numeric sequence: a
\* number (no Iterable), a nested sequence, a string
NotFlatNumeric == {IntArg(1), Nd2Arg, StrArg}

\* C16 (as stated): a Chebyshev constructor whose other arguments are valid
\* and whose coefficient argument is no one-dimensional numeric sequence
\* raises, and the exception is of one kind whichever of these arguments it
\* was given.
C16_SingleErrorKind ==
    (ctor.kind = "BarnettChebFit" /\ OrderedPairCtorArgs
        /\ isscalar(ctor.projectile_mass) /\ ctor.projectile_mass[2] >= 0
        /\ ctor.coefficients \in NotFlatNumeric) =>
        /\ pc = "failed" /\ why = "coefficients"
        /\ \A c \in NotFlatNumeric :
               construct(libm, [ctor EXCEPT !.coefficients = c]).err = err

\* C17: a semi-empirical fit constructed from the parameters p, one at
\* least, has p[0] as activation energy and p[1:], in order, as coefficients;
\* joined again, as __repr__ joins them, they are p.
C17_ParametersSplit ==
    (Live /\ self.kind # "BarnettChebFit") =>
        LET p == ctor.coefficients.s
        IN  /\ Len(p) >= 1
            /\ self.activation_energy = p[1]
            /\ Len(self.tabata_coefficients) = Len(p) - 1
            /\ \A i \in 1..(Len(p) - 1) : self.tabata_coefficients[i] = p[i + 1]
            /\ repr_tabata_parameters(self) = p

\* a fit made from the activation energy alone: its coefficients are ()
C17_Witness ==
    /\ Live /\ self.kind = "TabataFit1" /\ Len(ctor.coefficients.s) = 1
    /\ self.tabata_coefficients = <<>> /\ op.name = "init"

\* Tabata's primitives on named coefficients: f1(x; c1, c2),
\* f2(x; c1..c4), f3(x; c1..c6) and f4(x; c1..c8), x in eV
TabataF1(x, c1, c2) ==
    FMul(FMul(Lit("1e-16"), c1), FPow(FDiv(x, Lit("1.361e1")), c2))
TabataRatio(x, c, e) == FPow(FDiv(FMul(x, Lit("1e-3")), c), e)
TabataF2(x, c1, c2, c3, c4) ==
    FDiv(TabataF1(x, c1, c2), FAdd(Num(1), TabataRatio(x, c3, FAdd(c2, c4))))
TabataF3(x, c1, c2, c3, c4, c5, c6) ==
    FDiv(TabataF1(x, c1, c2),
         FAdd(FAdd(Num(1), TabataRatio(x, c3, FAdd(c2, c4))),
              TabataRatio(x, c5, FAdd(c2, c6))))
TabataF4(x, c1, c2, c3, c4, c5, c6, c7, c8) ==
    FDiv(FMul(TabataF1(x, c1, c2),
              FAdd(Num(1), TabataRatio(x, c3, FSub(c4, c2)))),
         FAdd(FAdd(Num(1), TabataRatio(x, c5, FAdd(c4, c6))),
              TabataRatio(x, c7, FAdd(c4, c8))))

\* the coefficient a_i of the instance (a1 at internal index 0)
A(i) == Coef(self, i - 1)
\* the last operation evaluated the scalar energy e inside the domain, on
\* an instance with all twelve coefficients, and returned
EvaluatedScalar ==
    /\ Live /\ op.name = "call" /\ op.arg.t = "float" /\ err = "none"
    /\ Inside(op.arg.s[1]) /\ Len(self.tabata_coefficients) = 12
\* x = E - activation energy of that evaluation
X == FSub(op.arg.s[1], self.activation_energy)

\* C18: each variant's value at E is its composition at x = E - Eth divided
\* by 1e4: #2 is f2(x) + a5 f2(x / a6), #8 is f2(x) + f3(x; a5, a2, a6, a7,
\* a8, a9), #14 is f4(x); for every variant the value at E is the value the
\* same variant with activation energy 0 has at x, and it is a quotient by
\* 1e4.
C18_VariantCompositions ==
    EvaluatedScalar =>
        LET v == ret.s[1]
            f2x == TabataF2(X, A(1), A(2), A(3), A(4))
        IN  /\ self.kind = "TabataFit2" =>
                   v = FDiv(FAdd(f2x,
                                 FMul(A(5), TabataF2(FDiv(X, A(6)),
                                                     A(1), A(2), A(3), A(4)))),
                            Lit("1e4"))
            /\ self.kind = "TabataFit8" =>
                   v = FDiv(FAdd(f2x, TabataF3(X, A(5), A(2), A(6), A(7), A(8), A(9))),
                            Lit("1e4"))
            /\ self.kind = "TabataFit14" =>
                   v = FDiv(TabataF4(X, A(1), A(2), A(3), A(4), A(5), A(6), A(7), A(8)),
                            Lit("1e4"))
            /\ v = fit_at([self EXCEPT !.activation_energy = Num(0)], X)
            /\ ~IsZero(X) => v[1] = "div" /\ v[3] = Lit("1e4")

\* variant #8 evaluated above its activation energy
C18_Witness ==
    /\ EvaluatedScalar /\ self.kind = "TabataFit8" /\ op.arg.s[1] = Num(3)
    /\ X = Num(2) /\ ret.s[1][1] = "div"

\* the last operation evaluated variant #1, holding the four coefficients
\* f2 reads, at the scalar energy equal to its activation energy, which is
\* inside the domain
AtThreshold ==
    /\ Live /\ self.kind = "TabataFit1" /\ op.name = "call"
    /\ op.arg.t = "float" /\ Inside(op.arg.s[1])
    /\ op.arg.s[1] = self.activation_energy
    /\ Len(self.tabata_coefficients) >= 4
Positive(v) == IsNum(v) /\ v[2] > 0

\* C19 as stated: at E = activation energy variant #1 does not raise, and
\* the result is 0 whenever a2 is positive
C19_ZeroAtThreshold ==
    AtThreshold => err = "none" /\ (Positive(A(2)) => ret.s[1] = Num(0))

\* C19: at E = activation energy variant #1 does not raise; with a2 positive
\* the result is 0 when a3 is not zero or a2 + a4 = 0, and NaN when a3 is
\* zero and a2 + a4 is not (the denominator is 1 + (0/0) ^ (a2 + a4))
C19_ZeroUnlessDegenerate ==
    AtThreshold =>
        /\ err = "none"
        /\ Positive(A(2)) /\ (~IsZero(A(3)) \/ IsZero(FAdd(A(2), A(4))))
               => ret.s[1] = Num(0)
        /\ Positive(A(2)) /\ IsZero(A(3)) /\ ~IsZero(FAdd(A(2), A(4)))
               => IsNaN(ret.s[1])

\* variant #1 with a2 = 2 and a3 = 1 evaluated at its activation energy
\* returned 0
C19_Witness ==
    /\ AtThreshold /\ err = "none" /\ A(2) = Num(2) /\ A(3) = Num(1)
    /\ ret.s[1] = Num(0)

\* the grid thread t asks for and the values of the fit on it
GridOf(t) == allowed_energies(self.domain, asarray(threads[t].energies))
ValuesOf(t) == fit_function(self, GridOf(t)).val
Done(t) == threads[t].pc = "done"
\* the cache holds the values of the fit on the current grid
CacheMatchesGrid == self.sigma = fit_function(self, self.energy_space).val

\* C20: without a lock the calls of two threads on one instance can leave a
\* cache that does not belong to the grid and can return the other caller's
\* values (or None); this comes from the interleaving alone: a call that no
\* step of the other thread overlapped returns the values of its own grid,
\* exactly as __call__ run in one piece, and leaves the cache matching the
\* grid, and whatever a call returns is None or the values of one of the
\* two callers' grids.
C20_UnsafeOnlyWhenInterleaved ==
    \A t \in Threads :
        Done(t) =>
            /\ threads[t].ret \in {NoneSigma, ValuesOf(t), ValuesOf(Other(t))}
            /\ ~threads[t].overlapped =>
                   /\ threads[t].ret = ValuesOf(t)
                   /\ ~InProgress(Other(t)) /\ ~Done(Other(t)) =>
                          \E r \in {call(libm, construct(libm, ctor).self, threads[t].energies)} :
                              self = r.self /\ threads[t].ret = r.ret /\ r.err = "none"
                   /\ ~InProgress(Other(t)) /\ ~threads[Other(t)].overlapped
                          => CacheMatchesGrid

\* both calls have returned; the cache holds the values of thread 1's grid
\* while the grid is thread 2's, and thread 2 was handed thread 1's values
C20_Witness ==
    /\ Done(1) /\ Done(2)
    /\ self.energy_space = GridOf(2) /\ self.sigma = ValuesOf(1)
    /\ ~CacheMatchesGrid
    /\ threads[2].ret = ValuesOf(1) /\ threads[2].ret # ValuesOf(2)

\* the instance thread t calls, as constructed, and the state one whole
\* __call__ of thread t leaves it in
Own(t) == IF t = 1 THEN self ELSE peer.self
Built(t) == IF t = 1 THEN construct(libm, ctor).self ELSE construct(libm, peer.ctor).self
Called(t) == call(libm, Built(t), threads[t].energies)

\* C21: whatever the other thread does on the other instance, an instance is
\* as constructed until its own thread starts, keeps its domain and
\* coefficients throughout, and when its own call has returned it is in the
\* state of a call run alone: the grid is the caller's energies filtered, the
\* cache and the value returned are fit_function of that grid.
C21_InstancesArePrivate ==
    \A t \in Threads :
        /\ threads[t].pc = "start" => Own(t) = Built(t)
        /\ Frame(Own(t)) = Frame(Built(t))
        /\ Done(t) =>
               /\ Own(t) = Called(t).self
               /\ threads[t].ret = Called(t).ret
               /\ threads[t].ret = fit_function(Own(t), Own(t).energy_space).val
               /\ Own(t).energy_space =
                      allowed_energies(Own(t).domain, asarray(threads[t].energies))

\* both calls overlapped and returned; the instances differ and each thread
\* holds the values of its own instance's grid, which are not the other's
C21_Witness ==
    /\ Done(1) /\ Done(2) /\ threads[1].overlapped /\ threads[2].overlapped
    /\ ctor # peer.ctor /\ threads[1].energies # threads[2].energies
    /\ threads[1].ret = self.sigma /\ threads[2].ret = peer.self.sigma
    /\ threads[1].ret # threads[2].ret
    /\ self.sigma # NoneSigma /\ peer.self.sigma # NoneSigma

\* the scalar the last __call__ was given, integer or float
ScalarGiven == IF op.arg.t = "int" THEN Num(op.arg.n) ELSE op.arg.s[1]

\* C22: a call given a scalar inside the domain, as an integer or as a
\* float, returns without error, leaves the grid holding that one energy and
\* returns the fit at that energy
C22_ScalarIsEnergy ==
    /\ Live /\ op.name = "call" /\ op.arg.t \in {"int", "float"}
    /\ Inside(ScalarGiven)
    => /\ err = "none" => /\ self.energy_space = ScalarGrid(ScalarGiven)
                          /\ ret = [t |-> "scalar", s |-> <<fit_at(self, ScalarGiven)>>]
       /\ err = "none" \/ IsRaise(fit_at(self, ScalarGiven))

\* the instance is a semi-empirical variant holding fewer coefficients than
\* its primitives index
ShortTuple ==
    /\ Live /\ self.kind \in VariantKinds
    /\ Len(self.tabata_coefficients) < coefficients_read(self.kind)

\* every call on such an instance raises IndexError, returns nothing and
\* leaves the cache empty
ShortTupleFails ==
    ShortTuple => /\ self.sigma = NoneSigma
                  /\ op.name = "init" => err = "none"
                  /\ op.name = "call" => err = "IndexError" /\ ret = NoneSigma /\ computed

\* a call on such an instance leaves the grid as it was (no energies given)
\* or as the grid assignment alone leaves it (energies given)
ShortTupleKeepsGrid ==
    ShortTuple /\ op'.name = "call" =>
        \E set \in {IF op'.arg = NoneArg THEN self
                     ELSE energy_space_setter(libm, self, op'.arg).self} :
            self' = set

\* C23: a variant with fewer coefficients than its primitives index is
\* constructed without error; each call on it, the first and every later
\* one, raises IndexError from _fit_function, leaves the cache empty and
\* leaves the grid untouched by the failed evaluation.
C23_ShortTupleFailsOnEvaluate == []ShortTupleFails /\ [][ShortTupleKeepsGrid]_vars

\* variant #14 built with four coefficients: its second evaluate() in a row
\* failed like the first, on the grid the constructor made
C23_Witness ==
    /\ ShortTuple /\ self.kind = "TabataFit14" /\ op.name = "call" /\ op.arg = NoneArg
    /\ neval = 2 /\ err = "IndexError" /\ self.sigma = NoneSigma
    /\ self.energy_space = construct(libm, ctor).self.energy_space

\* variant kind holding n coefficients evaluates without reading past the
\* end of its tuple
ReadsWithin(kind, n) ==
    ~IsRaise(fit_at([Blank(kind) EXCEPT !.tabata_coefficients = [i \in 1..n |-> Num(1)]],
                    Num(1)))

\* C24: every TabataFit entry of the database holds at least the number of
\* coefficients its variant indexes (#1: 4, #2: 6, #3: 8, #6: 6, #8: 9,
\* #10: 8, #11: 10, #13: 12, #14: 8, the least number with which the
\* variant's _fit_function does not raise), and no evaluation of an entry
\* raises IndexError or yields a value computed from a missing coefficient.
C24_EntriesHoldEnoughCoefficients ==
    /\ Live /\ self.kind \in VariantKinds
    /\ Len(self.tabata_coefficients) >= coefficients_read(self.kind)
    /\ Len(self.tabata_coefficients) = Len(ctor.coefficients.s) - 1
    /\ \A k \in VariantKinds : /\ ReadsWithin(k, coefficients_read(k))
                               /\ ~ReadsWithin(k, coefficients_read(k) - 1)
    /\ ReadsWithin(self.kind, Len(self.tabata_coefficients))
    /\ err # "IndexError"
    /\ op.name = "call" =>
           /\ err = "none"
           /\ \A i \in 1..Len(ret.s) : ~IsRaise(ret.s[i])

\* the variant #13 entry, which reads twelve coefficients, evaluated on a
\* grid of two energies inside its domain
C24_Witness ==
    /\ Live /\ self.kind = "TabataFit13" /\ Len(self.tabata_coefficients) = 12
    /\ op.name = "call" /\ op.arg.t = "seq" /\ err = "none" /\ computed
    /\ ret.t = "array" /\ Len(ret.s) = 2

\* C25: the low bound of every TabataFit entry's domain is at or above the
\* entry's activation energy, and every energy of the entry's grid, be it
\* the log-spaced grid of a count or the filtered scalar or sequence of an
\* assignment or a call, has x = E - activation energy >= 0.
C25_GridAtOrAboveActivationEnergy ==
    /\ Live
    /\ FLe(self.activation_energy, self.domain[1])
    /\ \A i \in 1..Len(self.energy_space.s) :
           IsNum(self.energy_space.s[i]) =>
               FLe(Num(0), FSub(self.energy_space.s[i], self.activation_energy))

\* an entry with a positive activation energy was called with an energy
\* just below it and with its low bound: the low bound alone is in the grid
C25_Witness ==
    /\ Live /\ self.activation_energy[2] > 0
    /\ op.name = "call" /\ op.arg.t = "seq"
    /\ op.arg.s = <<Num(self.activation_energy[2] - 1), self.domain[1]>>
    /\ self.energy_space = ArrayGrid(<<self.domain[1]>>)

\* C26: after a Chebyshev fit has been constructed, the object the caller
\* passed as barnett_coefficients holds what it held before, its first
\* element included, whether it is a tuple, a list or a numeric array
C26_CallerCoefficientsUnchanged ==
    Live /\ self.kind = "BarnettChebFit" => caller.coefficients = ctor.coefficients

\* C27: a call that returns gives fit_function of the current grid,
\* whatever the caller did to the arrays returned earlier
C27_ReturnedIsFitOfGrid ==
    Live /\ op.name = "call" /\ err = "none" =>
        ret = fit_function(self, self.energy_space).val

\* C28 (its part on emptiness): in every state after construction the grid
\* is the 'no valid energy' marker or holds at least one energy
C28_GridNeverEmpty ==
    Live => self.energy_space.t = "nan" \/ Len(self.energy_space.s) >= 1

\* C29: a grid assignment, made directly or by a call with energies, ends
\* without error or with the grid error (TypeError); an error of the
\* evaluation that follows the assignment inside a call is not counted
C29_OnlyGridError ==
    /\ Live /\ op.name = "set" => err \in {"none", "TypeError"}
    /\ Live /\ op.name = "call" /\ op.arg.t # "None" /\ ~computed
           => err \in {"none", "TypeError"}
====
